---------------------------- MODULE Spec2Model ----------------------------
(***************************************************************************)
(* Model of the fsc-reddit processing pipeline: RedditBot.discoverVideos   *)
(* and RedditBot.processAndPost (src/unnamed/part_001), the catalog        *)
(* collector YouTubeDiscovery.getTrendingVideos (src/unnamed/part_000),    *)
(* VideoAnalyzer.analyzeVideo and the standalone process handler           *)
(* (src/lib/video-analyzer.ts), and the standalone discover handler        *)
(* (src/app/api/cron/discover/route.ts).                                   *)
(*                                                                         *)
(* Conventions.  Identifiers (catalog ids, region codes, forum ids) are    *)
(* strings.  Free text (tldr, summary, error messages) is a sequence of    *)
(* tokens, so that "the message contains the title" is a statement about   *)
(* the tokens; the empty text <<>> is the empty (falsy) string.  A         *)
(* duration string is the sequence of its characters.  Every await of the  *)
(* handlers is one step of the model: an invocation is a record holding    *)
(* the handler's local variables and its position pc.                      *)
(***************************************************************************)
EXTENDS Integers, Sequences, FiniteSets, Bags, TLC

VARIABLES
    videos,        \* table Video, in creation order (row id = index)
    analyses,      \* table Analysis, in creation order (row id = index)
    redditPosts,   \* table RedditPost, in creation order
    forumCalls,    \* bag of the submitPost / submitComment calls made so far
    catalog,       \* what the catalog provider answers, per region index
    inv,           \* the running invocations, one record per slot
    fn,            \* a pure function under check: its arguments and its result
    lastDiscover   \* how the last Discover since the catalog changed ended:
                   \* "none" (there is none), "clean" (no error) or "errors"

vars == <<videos, analyses, redditPosts, forumCalls, catalog, inv, fn, lastDiscover>>

-----------------------------------------------------------------------------
(* Bounds of the model *)

\* how many of the region codes of getTrendingVideos are queried
MaxRegions == 2

\* the largest batchSize handed to processAndPost
MaxBatch == 2

\* the largest number of entries of a provider response whose validation is
\* checked on its own
MaxEntries == 3

\* the largest hours, minutes or seconds number of an encoded duration
MaxComponent == 12

\* the longest duration string drawn from the characters of the form
MaxChars == 5

\* the planner is run for every duration up to this many seconds (and for
\* a few long ones)
MaxDuration == 200

-----------------------------------------------------------------------------
(* Values *)

Null == "<null>"

Slots == {1}

Range(s) == {s[i] : i \in DOMAIN s}

Min(a, b) == IF a <= b THEN a ELSE b

Max(a, b) == IF a >= b THEN a ELSE b

Abs(a) == IF a >= 0 THEN a ELSE 0 - a

-----------------------------------------------------------------------------
(* Duration parser: /^PT(?:(\d+)H)?(?:(\d+)M)?(?:(\d+)S)?$/ *)

Digits == <<"0", "1", "2", "3", "4", "5", "6", "7", "8", "9">>

IsDigit(c) == \E d \in 1..10 : Digits[d] = c

DigitVal(c) == (CHOOSE d \in 1..10 : Digits[d] = c) - 1

\* the decimal digits of n: String(n) of a non-negative integer
RECURSIVE ToDigits(_)
ToDigits(n) ==
    IF n < 10 THEN <<Digits[n + 1]>>
    ELSE ToDigits(n \div 10) \o <<Digits[(n % 10) + 1]>>

\* index just after the maximal run of digits of s that starts at i
RECURSIVE DigitsEnd(_, _)
DigitsEnd(s, i) ==
    IF i <= Len(s) /\ IsDigit(s[i]) THEN DigitsEnd(s, i + 1) ELSE i

\* parseInt(s[i..j-1], 10)
RECURSIVE ParseInt(_, _, _)
ParseInt(s, i, j) ==
    IF j <= i THEN 0 ELSE ParseInt(s, i, j - 1) * 10 + DigitVal(s[j - 1])

\* one optional group (\d+)<unit> tried at position i:
\* [next |-> position after it, val |-> its number ('0' when absent)]
Group(s, i, unit) ==
    LET j == DigitsEnd(s, i)
    IN  IF j > i /\ j <= Len(s) /\ s[j] = unit
        THEN [next |-> j + 1, val |-> ParseInt(s, i, j)]
        ELSE [next |-> i, val |-> 0]

\* duration.match(...): whether the whole string matches, and the numbers
\* parseInt(match[k] || '0', 10) of its three groups
durationMatch(duration) ==
    IF Len(duration) < 2 \/ duration[1] # "P" \/ duration[2] # "T"
    THEN [ok |-> FALSE, hours |-> 0, minutes |-> 0, seconds |-> 0]
    ELSE LET h == Group(duration, 3, "H")
             m == Group(duration, h.next, "M")
             s == Group(duration, m.next, "S")
         IN  [ok |-> s.next = Len(duration) + 1,
              hours |-> h.val, minutes |-> m.val, seconds |-> s.val]

\* the parser counting an hour as 60 seconds (a mutation of the code)
parseISO8601DurationShortHours(duration) ==
    LET match == durationMatch(duration)
    IN  IF ~match.ok THEN 300
        ELSE match.hours * 60 + match.minutes * 60 + match.seconds

\* the parser falling back to 0 (a mutation of the code)
parseISO8601DurationZeroFallback(duration) ==
    LET match == durationMatch(duration)
    IN  IF ~match.ok THEN 0
        ELSE match.hours * 3600 + match.minutes * 60 + match.seconds

parseISO8601Duration(duration) ==
    LET match == durationMatch(duration)
    IN  IF ~match.ok THEN 300
        ELSE match.hours * 3600 + match.minutes * 60 + match.seconds

-----------------------------------------------------------------------------
(* Analysis Requestor: VideoAnalyzer.analyzeVideo and the process route's   *)
(* analyzeVideo.  A provider response is a record                           *)
(*   kind       "throw" (generateContent rejects), "empty" (no text),       *)
(*              "badjson" (JSON.parse throws) or "json"                     *)
(*   summary, tldr   text, <<>> when missing or empty                       *)
(*   isArray    whether timestamps is an array                              *)
(*   timestamps its entries; an entry is a record                           *)
(*       isObject  FALSE for a null element (reading .seconds throws)       *)
(*       secNum    typeof seconds === 'number'                              *)
(*       seconds   the number (meaningful when secNum)                      *)
(*       descStr   typeof description === 'string'                          *)
(*       description                                                        *)
(***************************************************************************)

Entry(sec, desc) ==
    [isObject |-> TRUE, secNum |-> TRUE, seconds |-> sec,
     descStr |-> TRUE, description |-> desc]

NullEntry ==
    [isObject |-> FALSE, secNum |-> FALSE, seconds |-> 0,
     descStr |-> FALSE, description |-> "x"]

JsonResponse(summary, tldr, isArray, timestamps) ==
    [kind |-> "json", summary |-> summary, tldr |-> tldr,
     isArray |-> isArray, timestamps |-> timestamps]

FailedResponse(kind) ==
    [kind |-> kind, summary |-> <<>>, tldr |-> <<>>,
     isArray |-> FALSE, timestamps |-> <<>>]

\* the filter callback with a strict upper bound (a mutation of the code)
validTimestampStrictUpper(timestamp, durationInSeconds) ==
    /\ timestamp.secNum
    /\ timestamp.descStr
    /\ timestamp.seconds >= 0
    /\ timestamp.seconds < durationInSeconds

\* the callback of analysisData.timestamps.filter
validTimestamp(timestamp, durationInSeconds) ==
    /\ timestamp.secNum
    /\ timestamp.descStr
    /\ timestamp.seconds >= 0
    /\ timestamp.seconds <= durationInSeconds

RECURSIVE Filter(_, _)
Filter(ts, D) ==
    IF ts = <<>> THEN <<>>
    ELSE IF validTimestamp(Head(ts), D)
         THEN <<Head(ts)>> \o Filter(Tail(ts), D)
         ELSE Filter(Tail(ts), D)

\* insert e before the elements of equal seconds: a sort that is not stable
\* (a mutation of the code)
RECURSIVE InsertSortedBeforeTies(_, _)
InsertSortedBeforeTies(sorted, e) ==
    IF sorted = <<>> THEN <<e>>
    ELSE IF Head(sorted).seconds < e.seconds
         THEN <<Head(sorted)>> \o InsertSortedBeforeTies(Tail(sorted), e)
         ELSE <<e>> \o sorted

\* insert e after every element whose seconds is <= e.seconds
RECURSIVE InsertSorted(_, _)
InsertSorted(sorted, e) ==
    IF sorted = <<>> THEN <<e>>
    ELSE IF Head(sorted).seconds <= e.seconds
         THEN <<Head(sorted)>> \o InsertSorted(Tail(sorted), e)
         ELSE <<e>> \o sorted

\* validTimestamps.sort((a, b) => a.seconds - b.seconds): stable
RECURSIVE SortBySeconds(_)
SortBySeconds(ts) ==
    IF ts = <<>> THEN <<>>
    ELSE InsertSorted(SortBySeconds(SubSeq(ts, 1, Len(ts) - 1)), ts[Len(ts)])

\* the object returned by the catch block of VideoAnalyzer.analyzeVideo
fallbackAnalysis(video) ==
    [tldr |-> <<"Analysis of \"", video.title, "\" - a video from ",
                video.channelTitle>>,
     summary |-> <<"This video covers content related to ", video.title, ".">>,
     timestampSeconds |-> <<60, 180, 300>>,
     timestampDescriptions |-> <<"Introduction and overview",
                                 "Main discussion points",
                                 "Conclusion and key takeaways">>]

\* whether the body of analyzeVideo throws on this response
analysisThrows(response) ==
    \/ response.kind # "json"
    \/ response.summary = <<>>
    \/ response.tldr = <<>>
    \/ ~response.isArray
    \/ \E i \in DOMAIN response.timestamps : ~response.timestamps[i].isObject

\* the message of the error the body throws
analysisError(response) ==
    CASE response.kind = "throw" -> <<"provider error">>
      [] response.kind = "empty" -> <<"Empty response from Gemini API">>
      [] response.kind = "badjson" -> <<"Unexpected token in JSON">>
      [] response.summary = <<>> \/ response.tldr = <<>> \/ ~response.isArray
            -> <<"Invalid analysis data structure from API">>
      [] OTHER -> <<"Cannot read properties of null">>

\* the object the body of analyzeVideo returns when it does not throw
analysisFromResponse(video, response) ==
    LET durationInSeconds == parseISO8601Duration(video.duration)
        finalTimestamps ==
            SortBySeconds(Filter(response.timestamps, durationInSeconds))
    IN  [tldr |-> response.tldr,
         summary |-> response.summary,
         timestampSeconds |->
             [i \in DOMAIN finalTimestamps |-> finalTimestamps[i].seconds],
         timestampDescriptions |->
             [i \in DOMAIN finalTimestamps |-> finalTimestamps[i].description]]

\* VideoAnalyzer.analyzeVideo: never throws
analyzeVideo(video, response) ==
    IF analysisThrows(response)
    THEN [threw |-> FALSE, error |-> <<>>, analysis |-> fallbackAnalysis(video)]
    ELSE [threw |-> FALSE, error |-> <<>>,
          analysis |-> analysisFromResponse(video, response)]

\* analyzeVideo of the standalone process handler: no try / catch
analyzeVideoRoute(video, response) ==
    IF analysisThrows(response)
    THEN [threw |-> TRUE, error |-> analysisError(response),
          analysis |-> fallbackAnalysis(video)]
    ELSE [threw |-> FALSE, error |-> <<>>,
          analysis |-> analysisFromResponse(video, response)]

-----------------------------------------------------------------------------
(* Timestamp Planner: the loop at the head of analyzeVideo *)

numStructuredTimestamps == 15

\* Math.round(i * baseInterval), baseInterval = D / (numStructuredTimestamps
\* + 1): the quotient is exact in binary floating point and Math.round takes
\* a half upwards
baseTime(D, i) ==
    (2 * i * D + (numStructuredTimestamps + 1))
        \div (2 * (numStructuredTimestamps + 1))

\* the values Math.round((Math.random() - 0.5) * Math.min(baseInterval * 0.1,
\* 20)) can take, Math.random() being any number of [0, 1): the integers j
\* with |j| < (m + 1) / 2 for m = min(D / 160, 20)
JitterValues(D) ==
    {j \in -10..10 : 320 * Abs(j) < Min(D, 3200) + 160}

\* the clamp without its lower bound (a mutation of the code)
planTimestampNoLowerClamp(D, i, jitter) ==
    Min(D - 5, baseTime(D, i) + jitter)

\* Math.max(5, Math.min(durationInSeconds - 5, baseTime + jitter))
planTimestamp(D, i, jitter) ==
    Max(5, Min(D - 5, baseTime(D, i) + jitter))

\* insert n after every element that is <= n
RECURSIVE InsertNumber(_, _)
InsertNumber(sorted, n) ==
    IF sorted = <<>> THEN <<n>>
    ELSE IF Head(sorted) <= n
         THEN <<Head(sorted)>> \o InsertNumber(Tail(sorted), n)
         ELSE <<n>> \o sorted

\* structuredTimestamps.sort((a, b) => a - b)
RECURSIVE SortNumbers(_)
SortNumbers(ns) ==
    IF ns = <<>> THEN <<>>
    ELSE InsertNumber(SortNumbers(SubSeq(ns, 1, Len(ns) - 1)), ns[Len(ns)])

\* the anchors planned for a video of D seconds, jitters[i] being the jitter
\* drawn in iteration i
structuredTimestamps(D, jitters) ==
    SortNumbers([i \in 1..numStructuredTimestamps |->
                    planTimestamp(D, i, jitters[i])])

-----------------------------------------------------------------------------
(* Catalog provider *)

DefaultRegions == <<"US", "UK", "CA", "AU", "IN">>

\* the regions argument of getTrendingVideos: a prefix of its default
regions == SubSeq(DefaultRegions, 1, Min(MaxRegions, Len(DefaultRegions)))

PT10M == <<"P", "T", "1", "0", "M">>

PT2M == <<"P", "T", "2", "M">>

PT0S == <<"P", "T", "0", "S">>

\* an item of the provider's response; duration <<>> when omitted
Item(id, title, duration) ==
    [id |-> id, title |-> title, channelTitle |-> "channel of " \o id,
     duration |-> duration]

ItemLists ==
    { <<Item("a", "title a", PT10M), Item("b", "title b", PT2M)>>,
      <<Item("a", "other title a", <<>>), Item("a", "title a", PT10M)>> }

\* what one region query can end in: a non-OK response, a thrown error,
\* or an OK response carrying items
CatalogResponses ==
    { [status |-> "nonok", items |-> <<>>],
      [status |-> "throw", items |-> <<>>] }
    \cup { [status |-> "ok", items |-> l] : l \in ItemLists }

Catalogs == [DOMAIN regions -> CatalogResponses]

\* the catalogs in which only the first region answers
FirstRegionCatalogs ==
    {c \in Catalogs :
        /\ c[1].status = "ok"
        /\ \A i \in DOMAIN regions : i > 1 => c[i].status = "nonok"}

\* regionVideos.forEach(video => allVideos.push({...video, region}))
RECURSIVE TagRegion(_, _)
TagRegion(items, region) ==
    IF items = <<>> THEN <<>>
    ELSE <<[id |-> Head(items).id, title |-> Head(items).title,
            channelTitle |-> Head(items).channelTitle,
            duration |-> Head(items).duration, region |-> region]>>
         \o TagRegion(Tail(items), region)

\* arr.findIndex(v => v.id === id), 0 when there is none
findIndex(arr, id) ==
    IF \E i \in DOMAIN arr : arr[i].id = id
    THEN CHOOSE i \in DOMAIN arr :
            /\ arr[i].id = id
            /\ \A j \in 1..(i - 1) : arr[j].id # id
    ELSE 0

RECURSIVE KeepAt(_, _, _)
KeepAt(arr, keep, i) ==
    IF i > Len(arr) THEN <<>>
    ELSE IF i \in keep
         THEN <<arr[i]>> \o KeepAt(arr, keep, i + 1)
         ELSE KeepAt(arr, keep, i + 1)

\* no deduplication at all (a mutation of the code)
uniqueVideosKeepAll(allVideos) == allVideos

\* deduplication keeping the last occurrence (a mutation of the code)
uniqueVideosKeepLast(allVideos) ==
    KeepAt(allVideos,
           {i \in DOMAIN allVideos :
               \A j \in (i + 1)..Len(allVideos) : allVideos[j].id # allVideos[i].id},
           1)

\* allVideos.filter((video, index, arr) =>
\*     arr.findIndex(v => v.id === video.id) === index)
uniqueVideos(allVideos) ==
    KeepAt(allVideos,
           {i \in DOMAIN allVideos : findIndex(allVideos, allVideos[i].id) = i},
           1)

\* the data of prisma.video.create in saveVideoToDatabase
saveVideoToDatabase(youtubeVideo) ==
    [youtubeId |-> youtubeVideo.id,
     title |-> youtubeVideo.title,
     channelTitle |-> youtubeVideo.channelTitle,
     duration |-> IF youtubeVideo.duration # <<>>
                  THEN youtubeVideo.duration ELSE PT0S,
     region |-> IF youtubeVideo.region # "" THEN youtubeVideo.region ELSE "US"]

\* the gate never skipping (a mutation of the code)
isExistingNever(existingVideoIds, id) == FALSE

\* existingVideoIds.has(video.id)
isExisting(existingVideoIds, id) == id \in existingVideoIds

-----------------------------------------------------------------------------
(* Post Formatter: formatAnalysisComment and formatTimestamp.               *)
(* The comment text is the sequence of its parts, a bullet being a record   *)
(* of its label, its link (the sequence of the pieces it is put together    *)
(* from) and its description.                                               *)

\* digits.padStart(2, '0')
padStart2(digits) == IF Len(digits) < 2 THEN <<"0">> \o digits ELSE digits

\* formatTimestamp without the padding (a mutation of the code)
formatTimestampNoPad(seconds) ==
    ToDigits(seconds \div 60) \o <<":">> \o ToDigits(seconds % 60)

\* `${mins}:${secs.toString().padStart(2, '0')}`
formatTimestamp(seconds) ==
    ToDigits(seconds \div 60) \o <<":">> \o padStart2(ToDigits(seconds % 60))

\* the line appended in iteration i of the loop of formatAnalysisComment
bullet(analysis, videoUrl, i) ==
    [kind |-> "bullet",
     label |-> formatTimestamp(analysis.timestampSeconds[i]),
     link |-> <<videoUrl, "&t=", ToDigits(analysis.timestampSeconds[i]), "s">>,
     description |-> analysis.timestampDescriptions[i]]

formatAnalysisComment(analysis, videoUrl) ==
    <<[kind |-> "tldr", text |-> analysis.tldr], [kind |-> "heading"]>>
    \o [i \in DOMAIN analysis.timestampSeconds |-> bullet(analysis, videoUrl, i)]
    \o <<[kind |-> "summary", text |-> analysis.summary], [kind |-> "footer"]>>

\* `https://www.youtube.com/watch?v=${video.youtubeId}`
videoUrlOf(youtubeId) == "https://www.youtube.com/watch?v=" \o youtubeId

-----------------------------------------------------------------------------
(* Repository writes *)

\* a write replacing the newest row of the table (a mutation of the code)
createOverwriting(table, data) ==
    IF table = <<>> THEN <<data>> ELSE [table EXCEPT ![Len(table)] = data]

\* prisma.<model>.create({data}): the only write the code makes
create(table, data) == Append(table, data)

-----------------------------------------------------------------------------
(* Invocations *)

\* who runs an operation: a method of RedditBot ("bot") or a standalone
\* handler ("route"); "cron" marks a cron handler that could not build its bot
Handlers == {"bot", "route"}

NoAnalysis ==
    [tldr |-> <<>>, summary |-> <<>>,
     timestampSeconds |-> <<>>, timestampDescriptions |-> <<>>]

\* no response of submitPost is held
NoResponse == [ok |-> FALSE, name |-> "", id |-> ""]

\* the local variables of a handler that is not running
IdleInv ==
    [op |-> "none", handler |-> "none", pc |-> "idle", outcome |-> "none",
     errors |-> <<>>, discovered |-> 0, analyzed |-> 0, posted |-> 0,
     startVideos |-> 0, snapshotReads |-> 0,
     existingVideoIds |-> {}, regionIdx |-> 0, queried |-> <<>>,
     delays |-> <<>>,
     allVideos |-> <<>>,
     uniqueVideos |-> <<>>, itemIdx |-> 0,
     maxVideos |-> 0, videosToProcess |-> <<>>, vidIdx |-> 0,
     genCalls |-> <<>>,
     analysis |-> NoAnalysis, savedAnalysisId |-> 0,
     redditResponse |-> NoResponse,
     postId |-> Null, commentPosted |-> FALSE, errorMsg |-> <<>>]

Idle(s) == inv[s].pc = "idle"

\* no pure function is under check
NoCall == [op |-> "none"]

\* error instanceof Error ? error.message : 'Unknown error', for a rejected
\* repository call
DbError == "repository error"

\* the message of the error a constructor throws when its key is not set
ConfigError == "YOUTUBE_API_KEY is required"

\* the catch at the end of the method letting the error go on to the caller
\* (a mutation of the code)
TopLevelFailureRethrow(s, prefix, message) ==
    [inv EXCEPT ![s].outcome = "threw", ![s].pc = "done"]

\* the catch at the end of the handler: RedditBot pushes the message and
\* returns its summary, the standalone handlers answer with a failure object
TopLevelFailure(s, prefix, message) ==
    IF inv[s].handler = "bot"
    THEN [inv EXCEPT ![s].errors = Append(@, <<prefix, message>>),
                     ![s].outcome = "summary",
                     ![s].pc = "done"]
    ELSE [inv EXCEPT ![s].errors = <<<<prefix, message>>>>,
                     ![s].outcome = "failure",
                     ![s].pc = "done"]

\* a cron handler whose new RedditBot() throws: its catch answers with the
\* failure object, no method of the bot having run
ConstructFails(s, op) ==
    /\ \A t \in Slots : Idle(t)
    /\ inv' = [inv EXCEPT ![s] =
                  [IdleInv EXCEPT
                      !.op = op,
                      !.handler = "cron",
                      !.startVideos = Len(videos),
                      !.errors = <<<<IF op = "discover" THEN "Discovery failed: "
                                                        ELSE "Processing failed: ",
                                    ConfigError>>>>,
                      !.outcome = "failure",
                      !.pc = "done"]]
    /\ UNCHANGED <<videos, analyses, redditPosts, forumCalls, catalog, lastDiscover, fn>>

-----------------------------------------------------------------------------
(* Discover: RedditBot.discoverVideos with YouTubeDiscovery.getTrendingVideos, *)
(* and the standalone discover handler                                         *)

StartDiscover(s, handler) ==
    /\ \A t \in Slots : Idle(t)
    /\ inv' = [inv EXCEPT ![s] = [IdleInv EXCEPT !.op = "discover",
                                                 !.handler = handler,
                                                 !.startVideos = Len(videos),
                                                 !.pc = "d_snapshot"]]
    /\ UNCHANGED <<videos, analyses, redditPosts, forumCalls, catalog, lastDiscover, fn>>

\* prisma.video.findMany({select: {youtubeId: true}})
LoadSnapshot(s) ==
    /\ inv[s].pc = "d_snapshot"
    /\ \E ok \in BOOLEAN :
         inv' = IF ok
                THEN [inv EXCEPT ![s].existingVideoIds =
                                     {videos[i].youtubeId : i \in DOMAIN videos},
                                 ![s].snapshotReads = @ + 1,
                                 ![s].regionIdx = 1,
                                 ![s].pc = "d_fetch"]
                ELSE [TopLevelFailure(s, "Discovery failed: ", DbError)
                         EXCEPT ![s].snapshotReads = @ + 1]
    /\ UNCHANGED <<videos, analyses, redditPosts, forumCalls, catalog, lastDiscover, fn>>

\* the loop over the regions abandoned at the first failing region (a
\* mutation of the code)
nextRegionAbortOnFailure(i, response) ==
    IF response.status = "ok" THEN i + 1 ELSE Len(regions) + 1

\* a failing region queried again (a mutation of the code)
nextRegionRetryOnFailure(i, response) ==
    IF response.status = "ok" THEN i + 1 ELSE i

\* the region the loop goes on with: the continue of a non-OK response and
\* the catch of a thrown error both end the iteration only
nextRegion(i, response) == i + 1

\* whether the iteration reaches await new Promise(resolve =>
\* setTimeout(resolve, 200)): it is the last statement of the try block, which
\* the continue of a non-OK response and a thrown error both leave
pacingDelay(response) == response.status = "ok"

\* one iteration of for (const region of regions); after the last one the
\* duplicates are removed
FetchRegion(s) ==
    /\ inv[s].pc = "d_fetch"
    /\ LET i == inv[s].regionIdx
           response == catalog[i]
           all == IF response.status = "ok"
                  THEN inv[s].allVideos \o TagRegion(response.items, regions[i])
                  ELSE inv[s].allVideos
           next == nextRegion(i, response)
       IN  inv' = IF next <= Len(regions)
                  THEN [inv EXCEPT ![s].allVideos = all,
                                   ![s].queried = Append(@, regions[i]),
                                   ![s].delays = Append(@, pacingDelay(response)),
                                   ![s].regionIdx = next]
                  ELSE [inv EXCEPT ![s].allVideos = all,
                                   ![s].queried = Append(@, regions[i]),
                                   ![s].delays = Append(@, pacingDelay(response)),
                                   ![s].regionIdx = next,
                                   ![s].uniqueVideos = uniqueVideos(all),
                                   ![s].itemIdx = 1,
                                   ![s].pc = "d_save"]
    /\ UNCHANGED <<videos, analyses, redditPosts, forumCalls, catalog, lastDiscover, fn>>

\* a failed save ending the loop (a mutation of the code)
saveFailedStop(r, id) ==
    [r EXCEPT !.errors = Append(@, <<"Failed to save video ", id, ": ", DbError>>),
              !.itemIdx = Len(r.uniqueVideos) + 1]

\* catch (error) of the save loop: the message is pushed, the loop goes on
saveFailed(r, id) ==
    [r EXCEPT !.errors = Append(@, <<"Failed to save video ", id, ": ", DbError>>),
              !.itemIdx = @ + 1]

\* the saved id put into the set of known ids (a mutation of the code)
savedAddingToGate(r, id) ==
    [r EXCEPT !.discovered = @ + 1, !.itemIdx = @ + 1,
              !.existingVideoIds = @ \cup {id}]

\* after await this.saveVideoToDatabase(video): discovered++, and the loop
\* goes on; existingVideoIds is left as it was read
saved(r, id) == [r EXCEPT !.discovered = @ + 1, !.itemIdx = @ + 1]

\* one iteration of for (const video of trendingVideos)
SaveItem(s) ==
    /\ inv[s].pc = "d_save"
    /\ inv[s].itemIdx <= Len(inv[s].uniqueVideos)
    /\ LET video == inv[s].uniqueVideos[inv[s].itemIdx]
       IN  IF isExisting(inv[s].existingVideoIds, video.id)
           THEN /\ inv' = [inv EXCEPT ![s].itemIdx = @ + 1]
                /\ UNCHANGED videos
           ELSE \E ok \in BOOLEAN :
                  IF ok
                  THEN /\ videos' = create(videos, saveVideoToDatabase(video))
                       /\ inv' = [inv EXCEPT ![s] = saved(inv[s], video.id)]
                  ELSE /\ UNCHANGED videos
                       /\ inv' = [inv EXCEPT ![s] = saveFailed(inv[s], video.id)]
    /\ UNCHANGED <<analyses, redditPosts, forumCalls, catalog, lastDiscover, fn>>

\* return { discovered, analyzed: 0, posted: 0, errors }
DiscoverReturn(s) ==
    /\ inv[s].pc = "d_save"
    /\ inv[s].itemIdx > Len(inv[s].uniqueVideos)
    /\ inv' = [inv EXCEPT ![s].outcome = "summary", ![s].pc = "done"]
    /\ UNCHANGED <<videos, analyses, redditPosts, forumCalls, catalog, lastDiscover, fn>>

\* the caller has the result; the slot is free again
Finish(s) ==
    /\ inv[s].pc = "done"
    /\ inv' = [inv EXCEPT ![s] = IdleInv]
    /\ lastDiscover' =
         IF inv[s].op = "discover"
         THEN IF inv[s].errors = <<>> THEN "clean" ELSE "errors"
         ELSE lastDiscover
    /\ UNCHANGED <<videos, analyses, redditPosts, forumCalls, catalog, fn>>

\* between invocations the provider's trending lists change
CatalogChange ==
    /\ \A t \in Slots : Idle(t)
    /\ \E c \in Catalogs :
         /\ c # catalog
         /\ catalog' = c
    /\ lastDiscover' = "none"
    /\ UNCHANGED <<videos, analyses, redditPosts, forumCalls, inv, fn>>

-----------------------------------------------------------------------------
(* ProcessAndPost: RedditBot.processAndPost and the standalone process handler *)

GenResponses ==
    { FailedResponse("throw"), FailedResponse("empty"), FailedResponse("badjson"),
      JsonResponse(<<>>, <<"tldr">>, TRUE, <<Entry(50, "c")>>),
      JsonResponse(<<"summary">>, <<>>, TRUE, <<Entry(50, "c")>>),
      JsonResponse(<<"summary">>, <<"tldr">>, FALSE, <<>>),
      JsonResponse(<<"summary">>, <<"tldr">>, TRUE,
                   <<Entry(-1, "a"), Entry(601, "b"), Entry(50, "c"), Entry(10, "d")>>) }

\* what submitPost can end in for the video with this catalog id: a rejection
\* (token request or submit request not OK), or the parsed response body with
\* its json.data.name and json.data.id ("" when absent)
SubmitOutcomes(youtubeId) ==
    { [ok |-> FALSE, name |-> "", id |-> ""],
      [ok |-> TRUE, name |-> "t3_" \o youtubeId, id |-> youtubeId],
      [ok |-> TRUE, name |-> "", id |-> youtubeId],
      [ok |-> TRUE, name |-> "", id |-> ""] }

ForumError == "Reddit API request failed: 500"

ForumCall(call, key, ok) == SetToBag({[call |-> call, key |-> key, ok |-> ok]})

\* the where clause ignoring the analyses (a mutation of the code)
lacksAnalysisAlways(videoId) == TRUE

\* where: { analyses: { none: {} } }
lacksAnalysis(videoId) ==
    \A i \in DOMAIN analyses : analyses[i].videoId # videoId

RECURSIVE Take(_, _)
Take(ids, n) ==
    IF n = 0 \/ ids = <<>> THEN <<>> ELSE <<Head(ids)>> \o Take(Tail(ids), n - 1)

\* the row ids from row id n down to 1, those lacking an analysis only
RECURSIVE NewestFirst(_)
NewestFirst(n) ==
    IF n = 0 THEN <<>>
    ELSE IF lacksAnalysis(n) THEN <<n>> \o NewestFirst(n - 1) ELSE NewestFirst(n - 1)

\* the query ordered by createdAt ascending (a mutation of the code)
findVideosToProcessOldestFirst(take) ==
    LET all == NewestFirst(Len(videos))
    IN  Take([i \in 1..Len(all) |-> all[Len(all) + 1 - i]], take)

\* prisma.video.findMany({where, orderBy: {createdAt: 'desc'}, take})
findVideosToProcess(take) == Take(NewestFirst(Len(videos)), take)

\* the plain id taken before the fullname (a mutation of the code)
extractPostIdPlainFirst(response) ==
    IF response.id # "" THEN response.id ELSE response.name

\* redditResponse.json?.data?.name || redditResponse.json?.data?.id
extractPostId(response) ==
    IF response.name # "" THEN response.name ELSE response.id

\* the status always POSTED (a mutation of the code)
publishStatusAlwaysPosted(commentPosted) == "POSTED"

\* the status never POSTED (a mutation of the code)
publishStatusNeverPosted(commentPosted) == "PARTIAL"

\* status: commentPosted ? 'POSTED' : 'PARTIAL'
publishStatus(commentPosted) == IF commentPosted THEN "POSTED" ELSE "PARTIAL"

\* the record pointing at the oldest AnalysisRecord (a mutation of the code)
postedRecordFirstAnalysis(videoId, analysisId, postId, commentPosted) ==
    [videoId |-> videoId, analysisId |-> 1,
     redditId |-> IF postId # "" THEN postId ELSE Null,
     status |-> publishStatus(commentPosted),
     errorMessage |-> <<>>, postedAt |-> "now"]

\* the data of prisma.redditPost.create on the success path
postedRecord(videoId, analysisId, postId, commentPosted) ==
    [videoId |-> videoId, analysisId |-> analysisId,
     redditId |-> IF postId # "" THEN postId ELSE Null,
     status |-> publishStatus(commentPosted),
     errorMessage |-> <<>>, postedAt |-> "now"]

\* the data of prisma.redditPost.create in catch (redditError)
failedRecord(videoId, analysisId, errorMsg) ==
    [videoId |-> videoId, analysisId |-> analysisId,
     redditId |-> Null, status |-> "FAILED",
     errorMessage |-> errorMsg, postedAt |-> Null]

\* the loop taking the same video again (a mutation of the code)
NextVideoAgain(r) ==
    [r EXCEPT !.pc = "p_analyze",
              !.analysis = NoAnalysis, !.savedAnalysisId = 0,
              !.redditResponse = NoResponse,
              !.postId = Null, !.commentPosted = FALSE, !.errorMsg = <<>>]

\* the end of one iteration of for (const video of videosToProcess)
NextVideo(r) ==
    IF r.vidIdx < Len(r.videosToProcess)
    THEN [r EXCEPT !.vidIdx = @ + 1, !.pc = "p_analyze",
                   !.analysis = NoAnalysis, !.savedAnalysisId = 0,
                   !.redditResponse = NoResponse,
                   !.postId = Null, !.commentPosted = FALSE, !.errorMsg = <<>>]
    ELSE [r EXCEPT !.vidIdx = @ + 1, !.pc = "done", !.outcome = "summary",
                   !.analysis = NoAnalysis, !.savedAnalysisId = 0,
                   !.redditResponse = NoResponse,
                   !.postId = Null, !.commentPosted = FALSE, !.errorMsg = <<>>]

\* the success path running on into the catch block (a mutation of the code)
afterSaveRedditPostFallThrough(r) ==
    [r EXCEPT !.posted = @ + 1,
              !.errorMsg = <<"Failed to post to Reddit: ", "Unknown error">>,
              !.pc = "p_failed"]

\* the record written and not counted (a mutation of the code)
afterSaveRedditPostUncounted(r) == NextVideo(r)

\* posted++ and the end of the inner try: the catch block is skipped
afterSaveRedditPost(r) == NextVideo([r EXCEPT !.posted = @ + 1])

\* catch (error) of the iteration ending the batch (a mutation of the code)
ProcessFailedAbort(r, youtubeId, message) ==
    [r EXCEPT !.errors = Append(@,
                  <<"Failed to process video ", youtubeId, ": ">> \o message),
              !.vidIdx = @ + 1, !.pc = "done", !.outcome = "summary"]

\* catch (error) of the iteration pushing nothing (a mutation of the code)
ProcessFailedSilent(r, youtubeId, message) == NextVideo(r)

\* catch (error) of the iteration
ProcessFailed(r, youtubeId, message) ==
    NextVideo([r EXCEPT !.errors = Append(@,
        <<"Failed to process video ", youtubeId, ": ">> \o message)])

\* the video of the current iteration
Current(s) == videos[inv[s].videosToProcess[inv[s].vidIdx]]

CurrentId(s) == inv[s].videosToProcess[inv[s].vidIdx]

StartProcess(s, handler, maxVideos) ==
    /\ \A t \in Slots : Idle(t)
    /\ handler = "route" => maxVideos = 1
    /\ inv' = [inv EXCEPT ![s] = [IdleInv EXCEPT !.op = "process",
                                                 !.handler = handler,
                                                 !.maxVideos = maxVideos,
                                                 !.pc = "p_select"]]
    /\ UNCHANGED <<videos, analyses, redditPosts, forumCalls, catalog, lastDiscover, fn>>

SelectVideos(s) ==
    /\ inv[s].pc = "p_select"
    /\ \E ok \in BOOLEAN :
         inv' = IF ~ok
                THEN TopLevelFailure(s, "Processing failed: ", DbError)
                ELSE LET selected == findVideosToProcess(inv[s].maxVideos)
                     IN  IF selected = <<>>
                         THEN [inv EXCEPT ![s].outcome = "summary", ![s].pc = "done"]
                         ELSE [inv EXCEPT ![s].videosToProcess = selected,
                                          ![s].vidIdx = 1,
                                          ![s].pc = "p_analyze"]
    /\ UNCHANGED <<videos, analyses, redditPosts, forumCalls, catalog, lastDiscover, fn>>

\* the generative call and what analyzeVideo makes of its response
Analyze(s) ==
    /\ inv[s].pc = "p_analyze"
    /\ \E response \in GenResponses :
         LET r == IF inv[s].handler = "bot"
                  THEN analyzeVideo(Current(s), response)
                  ELSE analyzeVideoRoute(Current(s), response)
             called == [inv[s] EXCEPT !.genCalls = Append(@, CurrentId(s))]
         IN  inv' = IF r.threw
                    THEN [inv EXCEPT ![s] =
                            ProcessFailed(called, Current(s).youtubeId, r.error)]
                    ELSE [inv EXCEPT ![s] =
                            [called EXCEPT !.analysis = r.analysis,
                                           !.pc = "p_saveAnalysis"]]
    /\ UNCHANGED <<videos, analyses, redditPosts, forumCalls, catalog, lastDiscover, fn>>

\* prisma.analysis.create
SaveAnalysis(s) ==
    /\ inv[s].pc = "p_saveAnalysis"
    /\ \E ok \in BOOLEAN :
         IF ok
         THEN /\ analyses' = create(analyses,
                    [videoId |-> CurrentId(s),
                     summary |-> inv[s].analysis.summary,
                     tldr |-> inv[s].analysis.tldr,
                     timestampSeconds |-> inv[s].analysis.timestampSeconds,
                     timestampDescriptions |-> inv[s].analysis.timestampDescriptions])
              /\ inv' = [inv EXCEPT ![s].savedAnalysisId = Len(analyses) + 1,
                                    ![s].analyzed = @ + 1,
                                    ![s].pc = "p_submit"]
         ELSE /\ UNCHANGED analyses
              /\ inv' = [inv EXCEPT ![s] =
                    ProcessFailed(inv[s], Current(s).youtubeId, <<DbError>>)]
    /\ UNCHANGED <<videos, redditPosts, forumCalls, catalog, lastDiscover, fn>>

\* this.reddit.submitPost('tlyt', postTitle, undefined, videoUrl)
SubmitPost(s) ==
    /\ inv[s].pc = "p_submit"
    /\ \E out \in SubmitOutcomes(Current(s).youtubeId) :
         /\ forumCalls' = forumCalls (+)
                ForumCall("submitPost", Current(s).youtubeId, out.ok)
         /\ inv' = IF out.ok
                   THEN [inv EXCEPT ![s].redditResponse = out,
                                    ![s].postId = extractPostId(out),
                                    ![s].pc = IF extractPostId(out) # ""
                                              THEN "p_comment" ELSE "p_record"]
                   ELSE [inv EXCEPT
                           ![s].redditResponse = out,
                           ![s].errors = Append(@,
                               <<"Failed to post to Reddit: ", ForumError>>),
                           ![s].errorMsg = <<"Failed to post to Reddit: ", ForumError>>,
                           ![s].pc = "p_failed"]
    /\ UNCHANGED <<videos, analyses, redditPosts, catalog, lastDiscover, fn>>

\* this.reddit.submitComment(postId, analysisComment)
SubmitComment(s) ==
    /\ inv[s].pc = "p_comment"
    /\ \E ok \in BOOLEAN :
         /\ forumCalls' = forumCalls (+) ForumCall("submitComment", inv[s].postId, ok)
         /\ inv' = [inv EXCEPT ![s].commentPosted = ok, ![s].pc = "p_record"]
    /\ UNCHANGED <<videos, analyses, redditPosts, catalog, lastDiscover, fn>>

\* prisma.redditPost.create at the end of the inner try
SaveRedditPost(s) ==
    /\ inv[s].pc = "p_record"
    /\ \E ok \in BOOLEAN :
         IF ok
         THEN /\ redditPosts' = create(redditPosts,
                    postedRecord(CurrentId(s), inv[s].savedAnalysisId,
                                 inv[s].postId, inv[s].commentPosted))
              /\ inv' = [inv EXCEPT ![s] = afterSaveRedditPost(inv[s])]
         ELSE /\ UNCHANGED redditPosts
              /\ inv' = [inv EXCEPT
                    ![s].errors = Append(@, <<"Failed to post to Reddit: ", DbError>>),
                    ![s].errorMsg = <<"Failed to post to Reddit: ", DbError>>,
                    ![s].pc = "p_failed"]
    /\ UNCHANGED <<videos, analyses, forumCalls, catalog, lastDiscover, fn>>

\* prisma.redditPost.create in catch (redditError)
SaveFailedPost(s) ==
    /\ inv[s].pc = "p_failed"
    /\ \E ok \in BOOLEAN :
         IF ok
         THEN /\ redditPosts' = create(redditPosts,
                    failedRecord(CurrentId(s), inv[s].savedAnalysisId,
                                 inv[s].errorMsg))
              /\ inv' = [inv EXCEPT ![s] = NextVideo(inv[s])]
         ELSE /\ UNCHANGED redditPosts
              /\ inv' = [inv EXCEPT ![s] =
                    ProcessFailed(inv[s], Current(s).youtubeId, <<DbError>>)]
    /\ UNCHANGED <<videos, analyses, forumCalls, catalog, lastDiscover, fn>>

-----------------------------------------------------------------------------
(* The pipeline: Discover and ProcessAndPost invocations, one at a time,  *)
(* against a catalog whose first region answers                           *)

Init ==
    /\ videos = <<>>
    /\ analyses = <<>>
    /\ redditPosts = <<>>
    /\ forumCalls = EmptyBag
    /\ catalog \in FirstRegionCatalogs
    /\ inv = [s \in Slots |-> IdleInv]
    /\ fn = NoCall
    /\ lastDiscover = "none"

Next ==
    \/ \E s \in Slots, h \in Handlers : StartDiscover(s, h)
    \/ \E s \in Slots : LoadSnapshot(s)
    \/ \E s \in Slots : FetchRegion(s)
    \/ \E s \in Slots : SaveItem(s)
    \/ \E s \in Slots : DiscoverReturn(s)
    \/ \E s \in Slots, h \in Handlers, n \in 1..MaxBatch : StartProcess(s, h, n)
    \/ \E s \in Slots : SelectVideos(s)
    \/ \E s \in Slots : Analyze(s)
    \/ \E s \in Slots : SaveAnalysis(s)
    \/ \E s \in Slots : SubmitPost(s)
    \/ \E s \in Slots : SubmitComment(s)
    \/ \E s \in Slots : SaveRedditPost(s)
    \/ \E s \in Slots : SaveFailedPost(s)
    \/ \E s \in Slots : Finish(s)
    \/ \E s \in Slots, op \in {"discover", "process"} : ConstructFails(s, op)

Spec == Init /\ [][Next]_vars

-----------------------------------------------------------------------------
(* Properties of the pipeline *)

\* the submitPost calls made for the video with this catalog id
SubmitCalls(youtubeId, ok) ==
    CopiesIn([call |-> "submitPost", key |-> youtubeId, ok |-> ok], forumCalls)

\* the submitComment calls made with this parent id
CommentCalls(parent, ok) ==
    CopiesIn([call |-> "submitComment", key |-> parent, ok |-> ok], forumCalls)

AnalysesOf(videoId) == {i \in DOMAIN analyses : analyses[i].videoId = videoId}

PostsOf(videoId) == {i \in DOMAIN redditPosts : redditPosts[i].videoId = videoId}

\* C1: over any sequence of non-overlapping Discover and ProcessAndPost
\* invocations every stored video has at most one AnalysisRecord and at most
\* one post submission, whatever calls fail
C1_ProcessedAtMostOnce ==
    \A v \in DOMAIN videos :
        /\ Cardinality(AnalysesOf(v)) <= 1
        /\ SubmitCalls(videos[v].youtubeId, TRUE)
             + SubmitCalls(videos[v].youtubeId, FALSE) <= 1

\* C1 witness: a video whose post submission failed has its analysis, and a
\* later ProcessAndPost invocation has selected nothing
C1_Witness ==
    \E v \in DOMAIN videos, s \in Slots :
        /\ Cardinality(AnalysesOf(v)) = 1
        /\ SubmitCalls(videos[v].youtubeId, FALSE) = 1
        /\ PostsOf(v) # {}
        /\ inv[s].op = "process"
        /\ inv[s].pc = "done"
        /\ inv[s].videosToProcess = <<>>
        /\ inv[s].errors = <<>>

C3_FailedAsStated ==
    \A i \in DOMAIN redditPosts :
        redditPosts[i].status = "FAILED" =>
            /\ redditPosts[i].redditId = Null
            /\ redditPosts[i].errorMessage # <<>>
            /\ SubmitCalls(videos[redditPosts[i].videoId].youtubeId, FALSE) >= 1
            /\ SubmitCalls(videos[redditPosts[i].videoId].youtubeId, TRUE) = 0

\* C4: every POSTED record follows a successful post submission and a
\* successful comment submission and carries a forum post id and posted-at
C4_Posted ==
    \A i \in DOMAIN redditPosts :
        redditPosts[i].status = "POSTED" =>
            /\ SubmitCalls(videos[redditPosts[i].videoId].youtubeId, TRUE) >= 1
            /\ redditPosts[i].redditId # Null
            /\ CommentCalls(redditPosts[i].redditId, TRUE) >= 1
            /\ redditPosts[i].postedAt # Null

\* C4 witness: a POSTED record exists
C4_Witness ==
    \E i \in DOMAIN redditPosts : redditPosts[i].status = "POSTED"

\* the videos of the batch whose iteration has ended and whose AnalysisRecord
\* was created by this invocation
ChainEnded(s) ==
    {inv[s].videosToProcess[j] : j \in 1..Min(inv[s].vidIdx - 1,
                                             Len(inv[s].videosToProcess))}
    \cap {analyses[k].videoId :
             k \in (Len(analyses) - inv[s].analyzed + 1)..Len(analyses)}

\* the entry of the errors list for a failed write in this video's iteration
WriteFailedEntry(videoId) ==
    <<"Failed to process video ", videos[videoId].youtubeId, ": ", DbError>>

\* C5 as stated: a video whose AnalysisRecord ProcessAndPost persisted has
\* exactly one PublishRecord when its iteration ends, whatever fails
C5_ExactlyOneAsStated ==
    \A s \in Slots :
        inv[s].op = "process" =>
            \A v \in ChainEnded(s) : Cardinality(PostsOf(v)) = 1

\* C5 amended: such a video has at most one PublishRecord; it has exactly
\* one unless the last PublishRecord write attempted for it failed, and then
\* it has none and the failure is in the errors list
C5_AtMostOne ==
    /\ \A v \in DOMAIN videos : Cardinality(PostsOf(v)) <= 1
    /\ \A s \in Slots :
          inv[s].op = "process" =>
              \A v \in ChainEnded(s) :
                  (Cardinality(PostsOf(v)) = 0)
                      <=> (WriteFailedEntry(v) \in Range(inv[s].errors))

\* C5 witness: in one invocation a video ended with its record although the
\* first write failed, and another ended with none
C5_Witness ==
    \E s \in Slots :
        /\ inv[s].op = "process"
        /\ inv[s].pc = "done"
        /\ \E v \in ChainEnded(s) :
              /\ Cardinality(PostsOf(v)) = 1
              /\ redditPosts[CHOOSE i \in PostsOf(v) : TRUE].errorMessage
                    = <<"Failed to post to Reddit: ", DbError>>
        /\ \E v \in ChainEnded(s) : PostsOf(v) = {}

\* the iterations of the batch that have ended
Ended(s) ==
    {inv[s].videosToProcess[j] : j \in 1..Min(inv[s].vidIdx - 1,
                                             Len(inv[s].videosToProcess))}

\* C6: whatever the generative provider does (throws, empty text, unparseable
\* JSON, no summary, no tldr, no timestamps array), every selected video gets
\* its AnalysisRecord (unless the repository write fails), a record not made
\* of the provider's text is the fallback (tldr with title and channel,
\* timestamps 60, 180, 300), and no generative failure enters the errors list
C6_FallbackAsStated ==
    /\ \A s \in Slots :
          inv[s].op = "process" =>
              /\ \A e \in Range(inv[s].errors) :
                    e[1] = "Failed to process video " => e[4] = DbError
              /\ \A v \in Ended(s) :
                    \/ AnalysesOf(v) # {}
                    \/ WriteFailedEntry(v) \in Range(inv[s].errors)
    /\ \A k \in DOMAIN analyses :
          analyses[k].tldr # <<"tldr">> =>
              /\ videos[analyses[k].videoId].title \in Range(analyses[k].tldr)
              /\ videos[analyses[k].videoId].channelTitle \in Range(analyses[k].tldr)
              /\ analyses[k].timestampSeconds = <<60, 180, 300>>

\* C7: every AnalysisRecord has as many seconds as descriptions, its seconds
\* non-decreasing and each within [0, D], D the parsed duration of its video
C7_TimestampsAsStated ==
    \A k \in DOMAIN analyses :
        LET seconds == analyses[k].timestampSeconds
            D == parseISO8601Duration(videos[analyses[k].videoId].duration)
        IN  /\ Len(seconds) = Len(analyses[k].timestampDescriptions)
            /\ \A i \in DOMAIN seconds :
                  /\ 0 <= seconds[i]
                  /\ seconds[i] <= D
                  /\ i > 1 => seconds[i - 1] <= seconds[i]

\* the entries of the errors list pushed by catch (error) of this video's
\* iteration
ProcessErrors(s, videoId) ==
    {e \in DOMAIN inv[s].errors :
        /\ inv[s].errors[e][1] = "Failed to process video "
        /\ inv[s].errors[e][2] = videos[videoId].youtubeId}

\* C14: a failure at any step of one video's chain never keeps a later
\* selected video from its own chain: when ProcessAndPost returns, every
\* selected video has had its iteration, which either ended at the analysis
\* or its write (an entry in errors, no AnalysisRecord) or went on to the
\* post submission
C14_BatchContinues ==
    \A s \in Slots :
        (inv[s].op = "process" /\ inv[s].pc = "done"
            /\ inv[s].videosToProcess # <<>>) =>
            /\ Ended(s) = Range(inv[s].videosToProcess)
            /\ \A v \in Range(inv[s].videosToProcess) :
                  \/ /\ AnalysesOf(v) = {}
                     /\ ProcessErrors(s, v) # {}
                  \/ /\ AnalysesOf(v) # {}
                     /\ SubmitCalls(videos[v].youtubeId, TRUE)
                          + SubmitCalls(videos[v].youtubeId, FALSE) = 1

\* C14 witness: of two selected videos the first lost its chain at the
\* AnalysisRecord write and the second was posted with its comment
C14_Witness ==
    \E s \in Slots :
        /\ inv[s].op = "process"
        /\ inv[s].pc = "done"
        /\ Len(inv[s].videosToProcess) = 2
        /\ AnalysesOf(inv[s].videosToProcess[1]) = {}
        /\ WriteFailedEntry(inv[s].videosToProcess[1]) \in Range(inv[s].errors)
        /\ \E i \in PostsOf(inv[s].videosToProcess[2]) :
              redditPosts[i].status = "POSTED"

\* the step taken is a failed prisma.analysis.create of this invocation
AnalysisWriteFails(s) ==
    /\ inv[s].pc = "p_saveAnalysis"
    /\ inv'[s] # inv[s]
    /\ analyses' = analyses

\* the step taken is a failed submitPost of this invocation
PostSubmissionFails(s) ==
    /\ inv[s].pc = "p_submit"
    /\ CopiesIn([call |-> "submitPost", key |-> Current(s).youtubeId,
                 ok |-> FALSE], forumCalls')
         = SubmitCalls(Current(s).youtubeId, FALSE) + 1

\* the step taken is a failed submitComment of this invocation
CommentSubmissionFails(s) ==
    /\ inv[s].pc = "p_comment"
    /\ CopiesIn([call |-> "submitComment", key |-> inv[s].postId,
                 ok |-> FALSE], forumCalls')
         = CommentCalls(inv[s].postId, FALSE) + 1

\* the step taken is a failed prisma.redditPost.create of this invocation
PublishWriteFails(s) ==
    /\ inv[s].pc \in {"p_record", "p_failed"}
    /\ inv'[s] # inv[s]
    /\ redditPosts' = redditPosts

\* the step appends exactly one entry to the errors list, an entry of the
\* iteration
AppendsError(s) ==
    /\ Len(inv'[s].errors) = Len(inv[s].errors) + 1
    /\ SubSeq(inv'[s].errors, 1, Len(inv[s].errors)) = inv[s].errors
    /\ inv'[s].errors[Len(inv'[s].errors)][1]
          \in {"Failed to process video ", "Failed to post to Reddit: "}

\* C15 as stated: whenever the AnalysisRecord write, the post submission,
\* the comment submission or a PublishRecord write of a video's chain fails,
\* an entry is appended to the errors list of the invocation
C15_ErrorRecordedAsStated ==
    [][\A s \in Slots :
          (AnalysisWriteFails(s) \/ PostSubmissionFails(s)
              \/ CommentSubmissionFails(s) \/ PublishWriteFails(s))
            => AppendsError(s)]_vars

\* C15 amended: whenever the AnalysisRecord write, the post submission or a
\* PublishRecord write of a video's chain fails, one entry is appended to
\* the errors list, which keeps it until the return; a failed comment
\* submission appends none and only leaves commentPosted false
C15_ErrorRecorded ==
    [][\A s \in Slots :
          /\ (AnalysisWriteFails(s) \/ PostSubmissionFails(s)
                  \/ PublishWriteFails(s))
                => AppendsError(s)
          /\ CommentSubmissionFails(s) =>
                /\ inv'[s].errors = inv[s].errors
                /\ ~inv'[s].commentPosted
          /\ (inv[s].op = "process" /\ inv[s].pc # "done") =>
                /\ Len(inv'[s].errors) >= Len(inv[s].errors)
                /\ SubSeq(inv'[s].errors, 1, Len(inv[s].errors)) = inv[s].errors]_vars

\* C15 witness: an invocation has returned after a failed comment
\* submission, which left a PARTIAL record and no entry, and a failed post
\* submission, whose entry is the only one of the errors list
C15_Witness ==
    \E s \in Slots :
        /\ inv[s].op = "process"
        /\ inv[s].pc = "done"
        /\ inv[s].errors = <<<<"Failed to post to Reddit: ", ForumError>>>>
        /\ \E v \in Range(inv[s].videosToProcess) : \E i \in PostsOf(v) :
              /\ redditPosts[i].status = "PARTIAL"
              /\ redditPosts[i].redditId # Null
              /\ CommentCalls(redditPosts[i].redditId, FALSE) = 1

\* C17: discoverVideos and processAndPost never throw: whatever fails, an
\* invocation that is under way can take its next step, a method of the
\* bot ends in a summary of counts and an errors list, and every handler
\* ends in a summary or in a single failure object with its details
C17_NeverThrows ==
    \A s \in Slots :
        /\ inv[s].pc # "done" => inv[s].outcome = "none"
        /\ inv[s].pc \notin {"idle", "done"} =>
              ENABLED (\/ LoadSnapshot(s) \/ FetchRegion(s) \/ SaveItem(s)
                       \/ DiscoverReturn(s) \/ SelectVideos(s) \/ Analyze(s)
                       \/ SaveAnalysis(s) \/ SubmitPost(s) \/ SubmitComment(s)
                       \/ SaveRedditPost(s) \/ SaveFailedPost(s))
        /\ inv[s].pc = "done" =>
              /\ inv[s].outcome \in {"summary", "failure"}
              /\ inv[s].handler = "bot" => inv[s].outcome = "summary"
              /\ inv[s].outcome = "summary" =>
                    /\ inv[s].discovered \in Nat
                    /\ inv[s].analyzed \in Nat
                    /\ inv[s].posted \in Nat
                    /\ \A e \in DOMAIN inv[s].errors : inv[s].errors[e] # <<>>
              /\ inv[s].outcome = "failure" =>
                    /\ Len(inv[s].errors) = 1
                    /\ inv[s].errors[1][2] \in {DbError, ConfigError}

\* C17 witness: processAndPost has returned its summary although its first
\* repository query failed
C17_Witness ==
    \E s \in Slots :
        /\ inv[s].op = "process"
        /\ inv[s].handler = "bot"
        /\ inv[s].pc = "done"
        /\ inv[s].outcome = "summary"
        /\ inv[s].errors = <<<<"Processing failed: ", DbError>>>>
        /\ videos # <<>>

\* the repository query that opens the operation has failed
OpeningQueryFailed(s) ==
    \E e \in Range(inv[s].errors) :
        e \in {<<"Discovery failed: ", DbError>>, <<"Processing failed: ", DbError>>}

\* C18: when the repository query that opens an operation fails, the
\* operation ends before any catalog, generative or forum call and before
\* any write, and the caller gets a single failure result with a details
\* string, not a summary
C18_FailureAsStated ==
    \A s \in Slots :
        (inv[s].pc = "done" /\ OpeningQueryFailed(s)) =>
            /\ inv[s].queried = <<>>
            /\ inv[s].itemIdx = 0
            /\ inv[s].vidIdx = 0
            /\ inv[s].discovered = 0
            /\ inv[s].analyzed = 0
            /\ inv[s].posted = 0
            /\ inv[s].op = "discover" => Len(videos) = inv[s].startVideos
            /\ inv[s].outcome = "failure"
            /\ Len(inv[s].errors) = 1

\* the AnalysisRecords there were when the invocation in slot s selected its
\* videos: all but those it has written since
AnalysedBefore(s) ==
    {analyses[i].videoId : i \in 1..(Len(analyses) - inv[s].analyzed)}

\* C24: the videos a ProcessAndPost(batchSize) invocation works on are at most
\* batchSize, had no AnalysisRecord when they were selected, are in the order
\* newest first and are the newest such videos; a video that had an
\* AnalysisRecord is not among them
C24_Selection ==
    \A s \in Slots :
        (inv[s].op = "process" /\ inv[s].videosToProcess # <<>>) =>
            LET sel == inv[s].videosToProcess
                candidates == DOMAIN videos \ AnalysedBefore(s)
            IN  /\ Len(sel) <= inv[s].maxVideos
                /\ Len(sel) = Min(inv[s].maxVideos, Cardinality(candidates))
                /\ \A k \in DOMAIN sel : sel[k] \in candidates
                /\ \A k \in DOMAIN sel : k > 1 => sel[k] < sel[k - 1]
                /\ \A v \in candidates \ Range(sel) :
                      \A k \in DOMAIN sel : v < sel[k]
                /\ inv[s].vidIdx \in 1..(Len(sel) + 1)

\* C24 witness: an invocation selected the older of two videos alone, the
\* newer one having an AnalysisRecord and a PublishRecord FAILED
C24_Witness ==
    \E s \in Slots :
        /\ inv[s].op = "process"
        /\ inv[s].maxVideos = 2
        /\ Len(videos) >= 2
        /\ inv[s].videosToProcess = <<1>>
        /\ 2 \in AnalysedBefore(s)
        /\ \E p \in PostsOf(2) : redditPosts[p].status = "FAILED"

IsPrefix(a, b) == Len(a) <= Len(b) /\ SubSeq(b, 1, Len(a)) = a

\* C25: every step leaves the records there are as they are, in all three
\* tables (so no status of a PublishRecord changes); TrendingVideoRecords are
\* added by Discover only, AnalysisRecords and PublishRecords by
\* ProcessAndPost only
C25_CreateOnly ==
    [][ /\ IsPrefix(videos, videos')
        /\ IsPrefix(analyses, analyses')
        /\ IsPrefix(redditPosts, redditPosts')
        /\ videos' # videos =>
              \E s \in Slots : inv[s].op = "discover" /\ inv'[s].op = "discover"
        /\ (analyses' # analyses \/ redditPosts' # redditPosts) =>
              /\ videos' = videos
              /\ \E s \in Slots : inv[s].op = "process" /\ inv'[s].op = "process"
      ]_vars

\* C25 witness: an invocation has written a PublishRecord after the FAILED one
\* of an earlier invocation, which is still FAILED
C25_Witness ==
    \E s \in Slots :
        /\ inv[s].op = "process"
        /\ Len(inv[s].videosToProcess) = 1
        /\ inv[s].posted = 1
        /\ Len(redditPosts) = 2
        /\ redditPosts[1].status = "FAILED"
        /\ redditPosts[2].status = "POSTED"

\* the invocation in slot s is inside the iteration of one video
InChain(s) ==
    /\ inv[s].op = "process"
    /\ inv[s].vidIdx \in DOMAIN inv[s].videosToProcess

\* the AnalysisRecord of the current iteration is written, by this invocation
\* and for the iteration's video
AnalysisPersisted(s) ==
    /\ inv[s].savedAnalysisId \in DOMAIN analyses
    /\ inv[s].savedAnalysisId > Len(analyses) - inv[s].analyzed
    /\ analyses[inv[s].savedAnalysisId].videoId = CurrentId(s)

\* C26: a forum call is made only once the AnalysisRecord of the video is
\* written and before its PublishRecord is, the comment only after a post
\* submission that succeeded; a PublishRecord is written after the post
\* submission and names the video and the AnalysisRecord this invocation
\* wrote for it; a failed AnalysisRecord write ends the iteration with no
\* forum call and no PublishRecord, and a video without AnalysisRecord has
\* neither
C26_ChainOrder ==
    /\ [](\A v \in DOMAIN videos :
            AnalysesOf(v) = {} =>
                /\ SubmitCalls(videos[v].youtubeId, TRUE) = 0
                /\ SubmitCalls(videos[v].youtubeId, FALSE) = 0
                /\ PostsOf(v) = {})
    /\ [][ \A s \in Slots :
            /\ forumCalls' # forumCalls =>
                  /\ InChain(s)
                  /\ AnalysisPersisted(s)
                  /\ PostsOf(CurrentId(s)) = {}
                  /\ analyses' = analyses /\ redditPosts' = redditPosts
                  /\ inv[s].pc = "p_comment" =>
                        /\ SubmitCalls(Current(s).youtubeId, TRUE) = 1
                        /\ inv[s].postId \notin {Null, ""}
                  /\ inv[s].pc # "p_comment" =>
                        /\ inv[s].pc = "p_submit"
                        /\ SubmitCalls(Current(s).youtubeId, TRUE) = 0
                        /\ SubmitCalls(Current(s).youtubeId, FALSE) = 0
            /\ redditPosts' # redditPosts =>
                  /\ InChain(s)
                  /\ AnalysisPersisted(s)
                  /\ forumCalls' = forumCalls
                  /\ SubmitCalls(Current(s).youtubeId, TRUE)
                        + SubmitCalls(Current(s).youtubeId, FALSE) = 1
                  /\ LET rp == redditPosts'[Len(redditPosts')]
                     IN  /\ rp.videoId = CurrentId(s)
                         /\ rp.analysisId = inv[s].savedAnalysisId
                  /\ ~InChain(s)' \/ CurrentId(s)' # CurrentId(s)
            /\ AnalysisWriteFails(s) =>
                  /\ forumCalls' = forumCalls /\ redditPosts' = redditPosts
                  /\ inv'[s].vidIdx = inv[s].vidIdx + 1
                  /\ inv'[s].pc \in {"p_analyze", "done"}
         ]_vars

\* C26 witness: in a batch of two the AnalysisRecord write of the first video
\* failed and the second went through the whole chain
C26_Witness ==
    \E s \in Slots :
        /\ inv[s].op = "process"
        /\ inv[s].pc = "done"
        /\ Len(inv[s].videosToProcess) = 2
        /\ inv[s].analyzed = 1
        /\ inv[s].posted = 1
        /\ AnalysesOf(inv[s].videosToProcess[1]) = {}
        /\ PostsOf(inv[s].videosToProcess[1]) = {}
        /\ inv[s].errors =
             <<<<"Failed to process video ",
                 videos[inv[s].videosToProcess[1]].youtubeId, ": ", DbError>>>>
        /\ \E p \in PostsOf(inv[s].videosToProcess[2]) :
              /\ redditPosts[p].status = "POSTED"
              /\ analyses[redditPosts[p].analysisId].videoId = inv[s].videosToProcess[2]

NoDuplicates(seq) ==
    \A i, j \in DOMAIN seq : i # j => seq[i] # seq[j]

\* the calls of this kind and key there were, failed ones included
CallsMade(call, key) ==
    CopiesIn([call |-> call, key |-> key, ok |-> TRUE], forumCalls)
        + CopiesIn([call |-> call, key |-> key, ok |-> FALSE], forumCalls)

\* C27: an invocation makes the generative call at most once per video and
\* queries each region at most once; no post submission and no comment
\* submission is made twice, a failed one included
C27_NoRetry ==
    /\ \A s \in Slots :
          /\ NoDuplicates(inv[s].genCalls)
          /\ NoDuplicates(inv[s].queried)
          /\ Len(inv[s].genCalls) <= Len(inv[s].videosToProcess)
          /\ Len(inv[s].queried) <= Len(regions)
    /\ \A c \in BagToSet(forumCalls) : CallsMade(c.call, c.key) = 1

\* C27 witness: a batch of two is over, the generative call made once for
\* each video, the post submission of one video having failed and the comment
\* submission of the other
C27_Witness ==
    \E s \in Slots :
        /\ inv[s].op = "process"
        /\ inv[s].pc = "done"
        /\ Len(inv[s].videosToProcess) = 2
        /\ inv[s].genCalls = inv[s].videosToProcess
        /\ SubmitCalls(videos[inv[s].videosToProcess[1]].youtubeId, FALSE) = 1
        /\ \E p \in PostsOf(inv[s].videosToProcess[2]) :
              /\ redditPosts[p].status = "PARTIAL"
              /\ redditPosts[p].redditId # Null
              /\ CommentCalls(redditPosts[p].redditId, FALSE) = 1

\* the post submission of the current video succeeded and its PublishRecord
\* is about to be written
PostSubmitted(s) ==
    /\ inv[s].op = "process"
    /\ inv[s].redditResponse.ok

\* the id the claim names: the name field, else the id field, else none ("")
FirstNonEmpty(response) ==
    IF response.name # "" THEN response.name
    ELSE IF response.id # "" THEN response.id
    ELSE ""

\* the PublishRecord written by this step stores the id, or null for none
StoresPostId(s) ==
    (PostSubmitted(s) /\ inv[s].pc = "p_record" /\ redditPosts' # redditPosts) =>
        LET rp == redditPosts'[Len(redditPosts')]
        IN  rp.redditId = IF FirstNonEmpty(inv[s].redditResponse) # ""
                          THEN FirstNonEmpty(inv[s].redditResponse)
                          ELSE Null

Returned(s) ==
    /\ inv[s].op = "process"
    /\ inv[s].pc = "done"
    /\ inv[s].handler # "cron"

\* the AnalysisRecords the invocation in slot s has written
AnalysesCreated(s) ==
    {i \in DOMAIN analyses : i > Len(analyses) - inv[s].analyzed}

\* the PublishRecords that name an AnalysisRecord of this invocation
PublishCreated(s) ==
    {p \in DOMAIN redditPosts : redditPosts[p].analysisId \in AnalysesCreated(s)}

\* C35: when ProcessAndPost returns, posted <= analyzed <= number of selected
\* videos <= batchSize, analyzed is the number of AnalysisRecords the
\* invocation created (one for each selected video that has one) and posted
\* the number of its PublishRecords with status POSTED or PARTIAL
C35_Counts ==
    \A s \in Slots :
        Returned(s) =>
            /\ inv[s].posted <= inv[s].analyzed
            /\ inv[s].analyzed <= Len(inv[s].videosToProcess)
            /\ Len(inv[s].videosToProcess) <= inv[s].maxVideos
            /\ inv[s].analyzed =
                 Cardinality({i \in DOMAIN analyses :
                                 analyses[i].videoId \in Range(inv[s].videosToProcess)})
            /\ inv[s].posted =
                 Cardinality({p \in PublishCreated(s) :
                                 redditPosts[p].status \in {"POSTED", "PARTIAL"}})
            /\ \A p \in DOMAIN redditPosts :
                  redditPosts[p].videoId \in Range(inv[s].videosToProcess)
                      => p \in PublishCreated(s)

\* C35 witness: a batch of two returned with analyzed = 2 and posted = 1, the
\* other video's PublishRecord being FAILED
C35_Witness ==
    \E s \in Slots :
        /\ Returned(s)
        /\ Len(inv[s].videosToProcess) = 2
        /\ inv[s].analyzed = 2
        /\ inv[s].posted = 1
        /\ \E p \in PublishCreated(s) : redditPosts[p].status = "FAILED"
        /\ \E p \in PublishCreated(s) : redditPosts[p].status = "PARTIAL"

-----------------------------------------------------------------------------
(* Discovery alone, against every catalog, the catalog changing between runs *)

InitDiscover ==
    /\ videos = <<>>
    /\ analyses = <<>>
    /\ redditPosts = <<>>
    /\ forumCalls = EmptyBag
    /\ catalog \in Catalogs
    /\ inv = [s \in Slots |-> IdleInv]
    /\ fn = NoCall
    /\ lastDiscover = "none"

NextDiscover ==
    \/ \E s \in Slots, h \in Handlers : StartDiscover(s, h)
    \/ \E s \in Slots : LoadSnapshot(s)
    \/ \E s \in Slots : FetchRegion(s)
    \/ \E s \in Slots : SaveItem(s)
    \/ \E s \in Slots : DiscoverReturn(s)
    \/ \E s \in Slots : Finish(s)
    \/ \E s \in Slots : ConstructFails(s, "discover")
    \/ CatalogChange

SpecDiscover == InitDiscover /\ [][NextDiscover]_vars


RegionsWith(id) ==
    {r \in DOMAIN regions :
        /\ catalog[r].status = "ok"
        /\ \E j \in DOMAIN catalog[r].items : catalog[r].items[j].id = id}

\* the first item with this id in region-iteration order, and its region
FirstEncountered(id) ==
    LET r == CHOOSE r \in RegionsWith(id) : \A q \in RegionsWith(id) : r <= q
        items == catalog[r].items
        j == CHOOSE j \in DOMAIN items :
                /\ items[j].id = id
                /\ \A k \in 1..(j - 1) : items[k].id # id
    IN  [item |-> items[j], region |-> regions[r]]

\* C10: of the items with one catalog id that the regions of a Discover run
\* return, exactly one is kept, the first in region-iteration order, and a
\* record persisted for it carries that first region
C10_FirstOccurrence ==
    \A s \in Slots :
        (inv[s].op = "discover" /\ inv[s].pc \in {"d_save", "done"}
            /\ inv[s].outcome # "failure" /\ inv[s].regionIdx > Len(regions)) =>
            /\ \A r \in DOMAIN regions : \A j \in DOMAIN catalog[r].items :
                  LET id == catalog[r].items[j].id
                      first == FirstEncountered(id)
                      kept == {k \in DOMAIN inv[s].uniqueVideos :
                                  inv[s].uniqueVideos[k].id = id}
                  IN  /\ Cardinality(kept) = 1
                      /\ \A k \in kept :
                            /\ inv[s].uniqueVideos[k].region = first.region
                            /\ inv[s].uniqueVideos[k].title = first.item.title
                            /\ inv[s].uniqueVideos[k].duration = first.item.duration
            /\ \A v \in (inv[s].startVideos + 1)..Len(videos) :
                  LET first == FirstEncountered(videos[v].youtubeId)
                  IN  /\ videos[v].region = first.region
                      /\ videos[v].title = first.item.title

\* C10 witness: a record was persisted for an id that two regions returned,
\* one of them twice
C10_Witness ==
    \E s \in Slots :
        /\ inv[s].op = "discover"
        /\ inv[s].pc = "done"
        /\ \E v \in (inv[s].startVideos + 1)..Len(videos) :
              /\ Cardinality(RegionsWith(videos[v].youtubeId)) >= 2
              /\ \E r \in RegionsWith(videos[v].youtubeId) :
                    Cardinality({j \in DOMAIN catalog[r].items :
                        catalog[r].items[j].id = videos[v].youtubeId}) >= 2

\* C11: after any sequence of non-overlapping Discover invocations that
\* starts from a repository with unique catalog ids, no two
\* TrendingVideoRecords share a catalog id, also when persistence attempts
\* of earlier runs failed
C11_UniqueCatalogIds ==
    \A i, j \in DOMAIN videos :
        i # j => videos[i].youtubeId # videos[j].youtubeId

\* C11 witness: a run that follows one with errors on the same catalog has
\* added a record to those of earlier runs, an id being listed by two regions
C11_Witness ==
    \E s \in Slots :
        /\ inv[s].op = "discover"
        /\ inv[s].pc = "done"
        /\ lastDiscover = "errors"
        /\ inv[s].startVideos >= 1
        /\ inv[s].discovered >= 1
        /\ \E r \in DOMAIN regions : \E j \in DOMAIN catalog[r].items :
              Cardinality(RegionsWith(catalog[r].items[j].id)) >= 2

\* the invocations of Discover whose region loop has ended
PastRegions(s) ==
    /\ inv[s].op = "discover"
    /\ inv[s].pc \in {"d_save", "done"}
    /\ inv[s].regionIdx > Len(regions)

\* the entries of the errors list for a failed save of the item with this id
SaveErrors(s, id) ==
    {e \in DOMAIN inv[s].errors :
        /\ inv[s].errors[e][1] = "Failed to save video "
        /\ inv[s].errors[e][2] = id}

\* the records this invocation has created for this id
CreatedFor(s, id) ==
    {v \in (inv[s].startVideos + 1)..Len(videos) : videos[v].youtubeId = id}

\* C12: whatever regions fail (non-OK response or thrown error), every
\* region is queried, in list order, and the items of the regions that
\* answered are merged and given to persistence: at return each of their ids
\* is known, stored or has its failed save in the errors list
C12_RegionFailureIsolated ==
    \A s \in Slots :
        /\ (inv[s].op = "discover" /\ inv[s].pc = "d_fetch") =>
              inv[s].queried = SubSeq(regions, 1, inv[s].regionIdx - 1)
        /\ PastRegions(s) =>
              /\ inv[s].queried = regions
              /\ {<<inv[s].allVideos[k].id, inv[s].allVideos[k].region>> :
                      k \in DOMAIN inv[s].allVideos}
                   = UNION {{<<catalog[r].items[j].id, regions[r]>> :
                                 j \in DOMAIN catalog[r].items} :
                            r \in {q \in DOMAIN regions : catalog[q].status = "ok"}}
              /\ inv[s].pc = "done" =>
                    \A r \in DOMAIN regions : \A j \in DOMAIN catalog[r].items :
                        LET id == catalog[r].items[j].id
                        IN  catalog[r].status = "ok" =>
                              \/ id \in inv[s].existingVideoIds
                              \/ CreatedFor(s, id) # {}
                              \/ SaveErrors(s, id) # {}

\* C12 witness: the first region threw, a later one answered, and a record
\* was created for one of its items
C12_Witness ==
    \E s \in Slots :
        /\ PastRegions(s)
        /\ inv[s].pc = "done"
        /\ catalog[1].status = "throw"
        /\ \E r \in DOMAIN regions :
              /\ r > 1
              /\ catalog[r].status = "ok"
              /\ \E v \in (inv[s].startVideos + 1)..Len(videos) :
                    videos[v].region = regions[r]

\* C16: when Discover returns, its errors list holds an entry for every
\* region whose catalog fetch failed (non-OK response or thrown error),
\* besides the entries of the failed saves
C16_RegionErrorAsStated ==
    \A s \in Slots :
        (PastRegions(s) /\ inv[s].pc = "done") =>
            Cardinality({e \in DOMAIN inv[s].errors :
                            inv[s].errors[e][1] # "Failed to save video "})
              >= Cardinality({r \in DOMAIN regions : catalog[r].status # "ok"})

\* the deduplicated items that the known-id snapshot does not hold
Unknown(s) ==
    {k \in DOMAIN inv[s].uniqueVideos :
        inv[s].uniqueVideos[k].id \notin inv[s].existingVideoIds}

\* C13: each deduplicated item whose id is not in the snapshot gets exactly
\* one persistence attempt, ending in a record or in one entry of errors; a
\* failed attempt does not stop later items; at return discovered is the
\* number of records created and discovered + per-item errors is the number
\* of unknown unique items
C13_OneAttemptPerItem ==
    \A s \in Slots :
        PastRegions(s) =>
            LET attempted == {k \in Unknown(s) : k < inv[s].itemIdx}
                perItem == {e \in DOMAIN inv[s].errors :
                               inv[s].errors[e][1] = "Failed to save video "}
            IN  /\ inv[s].discovered = Len(videos) - inv[s].startVideos
                /\ inv[s].discovered + Cardinality(perItem) = Cardinality(attempted)
                /\ \A k \in attempted :
                      LET id == inv[s].uniqueVideos[k].id
                      IN  Cardinality(CreatedFor(s, id))
                            + Cardinality(SaveErrors(s, id)) = 1
                /\ inv[s].pc = "done" =>
                      /\ attempted = Unknown(s)
                      /\ Len(inv[s].errors) = Cardinality(perItem)

\* C13 witness: the save of the first unknown item failed and a later item
\* was stored
C13_Witness ==
    \E s \in Slots :
        /\ PastRegions(s)
        /\ inv[s].pc = "done"
        /\ inv[s].discovered >= 1
        /\ \E k, l \in Unknown(s) :
              /\ k < l
              /\ SaveErrors(s, inv[s].uniqueVideos[k].id) # {}
              /\ CreatedFor(s, inv[s].uniqueVideos[l].id) # {}

\* C28 as stated: between every two consecutive region queries of a Discover
\* invocation the pacing delay has elapsed, whatever the earlier query ended in
C28_DelayAsStated ==
    \A s \in Slots :
        inv[s].op = "discover" =>
            \A k \in DOMAIN inv[s].queried :
                k < Len(inv[s].queried) => inv[s].delays[k]

\* the catalog ids the repository held when the invocation in slot s began
StartIds(s) == {videos[i].youtubeId : i \in 1..inv[s].startVideos}

\* C29: a Discover invocation reads the known catalog ids once, before it
\* queries a region or writes a record; the set it holds stays the one read,
\* ids saved during the batch not added; an item is skipped when its id is
\* in that set and written (or its write fails) when it is not, no further
\* read being made
C29_SnapshotOnce ==
    /\ [](\A s \in Slots :
            inv[s].op = "discover" =>
                /\ inv[s].snapshotReads <= 1
                /\ inv[s].snapshotReads = 0 =>
                      /\ inv[s].queried = <<>>
                      /\ Len(videos) = inv[s].startVideos
                /\ inv[s].pc \in {"d_fetch", "d_save"} =>
                      /\ inv[s].snapshotReads = 1
                      /\ inv[s].existingVideoIds = StartIds(s)
                /\ inv[s].regionIdx >= 1 => inv[s].existingVideoIds = StartIds(s))
    /\ [][ \A s \in Slots :
            (inv[s].pc = "d_save" /\ inv'[s].itemIdx = inv[s].itemIdx + 1) =>
                LET id == inv[s].uniqueVideos[inv[s].itemIdx].id
                IN  /\ inv'[s].snapshotReads = inv[s].snapshotReads
                    /\ id \in StartIds(s) =>
                          /\ videos' = videos
                          /\ inv'[s].errors = inv[s].errors
                    /\ id \notin StartIds(s) =>
                          \/ /\ videos' = Append(videos, saveVideoToDatabase(
                                     inv[s].uniqueVideos[inv[s].itemIdx]))
                             /\ inv'[s].errors = inv[s].errors
                          \/ /\ videos' = videos
                             /\ Len(inv'[s].errors) = Len(inv[s].errors) + 1
         ]_vars

\* C29 witness: a Discover invocation ended having skipped an item known
\* before it began and saved another
C29_Witness ==
    \E s \in Slots :
        /\ inv[s].op = "discover"
        /\ inv[s].pc = "done"
        /\ inv[s].snapshotReads = 1
        /\ inv[s].startVideos >= 1
        /\ inv[s].discovered = 1
        /\ Len(videos) = inv[s].startVideos + 1
        /\ \E k \in DOMAIN inv[s].uniqueVideos :
              inv[s].uniqueVideos[k].id \in StartIds(s)

-----------------------------------------------------------------------------
(* Timestamp validation on its own: analyzeVideo applied to a response of  *)
(* valid structure, for every video duration and entry list of the bounds  *)

DurationStrings == {PT0S, PT2M, PT10M, <<"1", "0", ":", "0", "0">>}

\* the entries tried for a video of duration D
EntrySet(D) ==
    { Entry(-1, "a"), Entry(D + 1, "b"), Entry(50, "c"), Entry(0, "d"),
      Entry(D, "e"), Entry(50, "h"),
      [isObject |-> TRUE, secNum |-> FALSE, seconds |-> 0,
       descStr |-> TRUE, description |-> "f"],
      [isObject |-> TRUE, secNum |-> TRUE, seconds |-> 0,
       descStr |-> FALSE, description |-> "g"],
      NullEntry }

SeqsUpTo(S, n) == UNION {[1..k -> S] : k \in 0..n}

InitValidate ==
    /\ videos = <<>>
    /\ analyses = <<>>
    /\ redditPosts = <<>>
    /\ forumCalls = EmptyBag
    /\ catalog = [i \in DOMAIN regions |-> [status |-> "nonok", items |-> <<>>]]
    /\ inv = [s \in Slots |-> IdleInv]
    /\ lastDiscover = "none"
    /\ \E handler \in Handlers, duration \in DurationStrings :
         \E timestamps \in SeqsUpTo(EntrySet(parseISO8601Duration(duration)),
                                    MaxEntries) :
            fn = [op |-> "analyzeVideo", handler |-> handler,
                  duration |-> duration, timestamps |-> timestamps,
                  done |-> FALSE, threw |-> FALSE, result |-> NoAnalysis]

ApplyAnalyzeVideo ==
    /\ fn.op = "analyzeVideo"
    /\ ~fn.done
    /\ LET video == [title |-> "title", channelTitle |-> "channel",
                     duration |-> fn.duration]
           response == JsonResponse(<<"summary">>, <<"tldr">>, TRUE, fn.timestamps)
           r == IF fn.handler = "bot"
                THEN analyzeVideo(video, response)
                ELSE analyzeVideoRoute(video, response)
       IN  fn' = [fn EXCEPT !.done = TRUE, !.threw = r.threw, !.result = r.analysis]
    /\ UNCHANGED <<videos, analyses, redditPosts, forumCalls, catalog, inv, lastDiscover>>

SpecValidate == InitValidate /\ [][ApplyAnalyzeVideo]_vars

\* the entries that validation is to keep
Kept(timestamps, D) ==
    {i \in DOMAIN timestamps :
        /\ timestamps[i].secNum
        /\ timestamps[i].descStr
        /\ 0 <= timestamps[i].seconds
        /\ timestamps[i].seconds <= D}

C31_DropOnlyAsStated ==
    (fn.op = "analyzeVideo" /\ fn.done /\ fn.handler = "bot") =>
        LET D == parseISO8601Duration(fn.duration)
            K == Kept(fn.timestamps, D)
        IN  /\ ~fn.threw
            /\ fn.result.tldr = <<"tldr">>
            /\ fn.result.summary = <<"summary">>
            /\ Len(fn.result.timestampSeconds) = Cardinality(K)
            /\ \A k \in K :
                  \E j \in DOMAIN fn.result.timestampSeconds :
                      /\ fn.result.timestampSeconds[j] = fn.timestamps[k].seconds
                      /\ fn.result.timestampDescriptions[j]
                            = fn.timestamps[k].description

-----------------------------------------------------------------------------
(* The duration parser on its own: parseISO8601Duration applied to the     *)
(* encodings PT[h]H[m]M[s]S of the bounds and to every short string over   *)
(* the characters of the form                                              *)

Units == {"H", "M", "S"}

\* one component of an encoding: its number, with a leading zero when
\* padded, and its unit; nothing when the component is absent
Component(present, unit, n, pad) ==
    IF unit \in present
    THEN (IF pad THEN <<"0">> ELSE <<>>) \o ToDigits(n) \o <<unit>>
    ELSE <<>>

\* the duration string the catalog provider sends for h hours, m minutes and
\* s seconds, the components of present written out
EncodeDuration(present, h, m, s, pad) ==
    <<"P", "T">> \o Component(present, "H", h, pad)
                \o Component(present, "M", m, pad)
                \o Component(present, "S", s, pad)

DurationChars == {"P", "T", "H", "M", "S", "D", "1"}

\* strings of other shapes: a clock time, a fraction, lower case, a day
\* component, a sign, surrounding blanks, no designator, nothing
OtherDurations ==
    { <<"1", ":", "0", "0">>,
      <<"P", "T", "1", ".", "5", "S">>,
      <<"p", "t", "1", "m">>,
      <<"P", "1", "D", "T", "2", "H">>,
      <<"P", "T", "-", "1", "S">>,
      <<"P", "T", "1", "M", " ">>,
      <<" ", "P", "T", "1", "M">>,
      <<"P", "T", "1", "0", "M", "3", "0">>,
      <<"P", "T", "3", "0", "S", "1", "0", "M">>,
      <<"3", "0", "0">> }

\* a call of the parser not yet made
ParserCall(encoded, present, h, m, s, pad, duration) ==
    [op |-> "parseISO8601Duration", encoded |-> encoded, present |-> present,
     h |-> h, m |-> m, s |-> s, pad |-> pad, duration |-> duration,
     done |-> FALSE, result |-> 0, kept |-> <<>>]

EncodedCalls ==
    { ParserCall(TRUE, present, h, m, s, pad,
                 EncodeDuration(present, h, m, s, pad)) :
        present \in SUBSET Units,
        h \in 0..MaxComponent, m \in 0..MaxComponent, s \in 0..MaxComponent,
        pad \in BOOLEAN }

\* an absent component stands for the number 0
WellFormedCall(c) ==
    /\ "H" \notin c.present => c.h = 0
    /\ "M" \notin c.present => c.m = 0
    /\ "S" \notin c.present => c.s = 0

StringCalls ==
    { ParserCall(FALSE, {}, 0, 0, 0, FALSE, duration) :
        duration \in SeqsUpTo(DurationChars, MaxChars) \cup OtherDurations }

InitDuration ==
    /\ videos = <<>>
    /\ analyses = <<>>
    /\ redditPosts = <<>>
    /\ forumCalls = EmptyBag
    /\ catalog = [i \in DOMAIN regions |-> [status |-> "nonok", items |-> <<>>]]
    /\ inv = [s \in Slots |-> IdleInv]
    /\ lastDiscover = "none"
    /\ fn \in {c \in EncodedCalls : WellFormedCall(c)} \cup StringCalls

\* the parser is called, and analyzeVideo validates provider timestamps at
\* 300 and 301 seconds for a video with this duration string
ApplyParseDuration ==
    /\ fn.op = "parseISO8601Duration"
    /\ ~fn.done
    /\ LET video == [title |-> "title", channelTitle |-> "channel",
                     duration |-> fn.duration]
           response == JsonResponse(<<"summary">>, <<"tldr">>, TRUE,
                                    <<Entry(300, "a"), Entry(301, "b")>>)
       IN  fn' = [fn EXCEPT
                    !.done = TRUE,
                    !.result = parseISO8601Duration(fn.duration),
                    !.kept = analyzeVideo(video, response).analysis.timestampSeconds]
    /\ UNCHANGED <<videos, analyses, redditPosts, forumCalls, catalog, inv, lastDiscover>>

SpecDuration == InitDuration /\ [][ApplyParseDuration]_vars

\* C19: for every encoding PT[h]H[m]M[s]S of non-negative integers, with
\* any subset of the three components present, the parser returns
\* h * 3600 + m * 60 + s
C19_ParsesEncoding ==
    (fn.op = "parseISO8601Duration" /\ fn.done /\ fn.encoded) =>
        fn.result = fn.h * 3600 + fn.m * 60 + fn.s

\* C19 witness: the padded encoding PT01H02M03S was parsed to 3723
C19_Witness ==
    /\ fn.op = "parseISO8601Duration"
    /\ fn.done
    /\ fn.encoded
    /\ fn.duration = <<"P", "T", "0", "1", "H", "0", "2", "M", "0", "3", "S">>
    /\ fn.result = 3723

IsUnit(c) == c \in Units

UnitRank(c) == CASE c = "H" -> 1 [] c = "M" -> 2 [] c = "S" -> 3

\* the hours/minutes/seconds form: PT, then numbers each followed by its
\* unit, the units in the order H, M, S and none twice
MatchesForm(d) ==
    /\ Len(d) >= 2
    /\ d[1] = "P"
    /\ d[2] = "T"
    /\ \A i \in 3..Len(d) :
          /\ IsDigit(d[i]) \/ IsUnit(d[i])
          /\ IsUnit(d[i]) => (i > 3 /\ IsDigit(d[i - 1]))
    /\ Len(d) > 2 => IsUnit(d[Len(d)])
    /\ \A i, j \in 3..Len(d) :
          (i < j /\ IsUnit(d[i]) /\ IsUnit(d[j])) => UnitRank(d[i]) < UnitRank(d[j])

\* C20: for every duration string that is not of the hours/minutes/seconds
\* form the parser returns 300, and validation then bounds the timestamps
\* of such a video by 300: of 300 and 301 it keeps 300 only
C20_MalformedIs300 ==
    (fn.op = "parseISO8601Duration" /\ fn.done /\ ~MatchesForm(fn.duration)) =>
        /\ fn.result = 300
        /\ fn.kept = <<300>>

\* C20 witness: a duration with a day component was parsed to 300
C20_Witness ==
    /\ fn.op = "parseISO8601Duration"
    /\ fn.done
    /\ fn.duration = <<"P", "1", "D", "T", "2", "H">>
    /\ fn.result = 300
    /\ fn.kept = <<300>>

-----------------------------------------------------------------------------
(* The Timestamp Planner on its own: the anchors planned for every         *)
(* duration of the bounds, the jitter drawn the same in every iteration,   *)
(* alternating between two values, or in one iteration only                *)

LongDurations == {300, 600, 3600, 36000}

PlannerDurations == (0..MaxDuration) \cup LongDurations

AlternatingJitter(a, b) ==
    [i \in 1..numStructuredTimestamps |-> IF i % 2 = 1 THEN a ELSE b]

SingleJitter(k, j) ==
    [i \in 1..numStructuredTimestamps |-> IF i = k THEN j ELSE 0]

\* the draws of Math.random() tried for a video of D seconds
JitterDraws(D) ==
    {AlternatingJitter(a, b) : a \in JitterValues(D), b \in JitterValues(D)}
    \cup {SingleJitter(k, j) :
             k \in 1..numStructuredTimestamps, j \in JitterValues(D)}

InitPlanner ==
    /\ videos = <<>>
    /\ analyses = <<>>
    /\ redditPosts = <<>>
    /\ forumCalls = EmptyBag
    /\ catalog = [i \in DOMAIN regions |-> [status |-> "nonok", items |-> <<>>]]
    /\ inv = [s \in Slots |-> IdleInv]
    /\ lastDiscover = "none"
    /\ \E D \in PlannerDurations : \E jitters \in JitterDraws(D) :
          fn = [op |-> "planner", D |-> D, jitters |-> jitters,
                done |-> FALSE, result |-> <<>>]

ApplyPlanner ==
    /\ fn.op = "planner"
    /\ ~fn.done
    /\ fn' = [fn EXCEPT !.done = TRUE,
                        !.result = structuredTimestamps(fn.D, fn.jitters)]
    /\ UNCHANGED <<videos, analyses, redditPosts, forumCalls, catalog, inv, lastDiscover>>

SpecPlanner == InitPlanner /\ [][ApplyPlanner]_vars

\* C21: for every duration D > 10 and every jitter the planner returns
\* exactly 15 values, each within [5, D - 5], in ascending order
C21_PlannerRange ==
    (fn.op = "planner" /\ fn.done /\ fn.D > 10) =>
        /\ Len(fn.result) = 15
        /\ \A i \in DOMAIN fn.result :
              /\ 5 <= fn.result[i]
              /\ fn.result[i] <= fn.D - 5
              /\ i > 1 => fn.result[i - 1] <= fn.result[i]

\* C21 witness: for D = 3600 the largest jitter was drawn downwards in the
\* first iteration (225 - 10) and the 15 anchors were returned
C21_Witness ==
    /\ fn.op = "planner"
    /\ fn.done
    /\ fn.D = 3600
    /\ fn.jitters[1] = -10
    /\ fn.result[1] = 215
    /\ fn.result[15] = 3375

\* C33 as stated: for every duration D >= 0, the PT0S of a video stored
\* without duration included, every anchor the planner returns is within [0, D]
C33_AnchorsValidAsStated ==
    (fn.op = "planner" /\ fn.done) =>
        \A i \in DOMAIN fn.result :
            /\ 0 <= fn.result[i]
            /\ fn.result[i] <= fn.D

-----------------------------------------------------------------------------
(* The Post Formatter on its own: formatAnalysisComment applied to the     *)
(* analyses of the bounds, their seconds ascending as analyzeVideo leaves  *)
(* them                                                                    *)

FormatSeconds == {0, 5, 59, 60, 65, 599, 600, 3599, 3600, 3665}

Ascending(ns) == \A i \in DOMAIN ns : i > 1 => ns[i - 1] <= ns[i]

InitFormat ==
    /\ videos = <<>>
    /\ analyses = <<>>
    /\ redditPosts = <<>>
    /\ forumCalls = EmptyBag
    /\ catalog = [i \in DOMAIN regions |-> [status |-> "nonok", items |-> <<>>]]
    /\ inv = [s \in Slots |-> IdleInv]
    /\ lastDiscover = "none"
    /\ \E seconds \in SeqsUpTo(FormatSeconds, MaxEntries) :
          /\ Ascending(seconds)
          /\ fn = [op |-> "formatAnalysisComment",
                   analysis |->
                       [tldr |-> <<"tldr">>, summary |-> <<"summary">>,
                        timestampSeconds |-> seconds,
                        timestampDescriptions |->
                            [i \in DOMAIN seconds |-> <<"moment">> \o ToDigits(i)]],
                   videoUrl |-> videoUrlOf("a"),
                   done |-> FALSE, content |-> <<>>]

ApplyFormat ==
    /\ fn.op = "formatAnalysisComment"
    /\ ~fn.done
    /\ fn' = [fn EXCEPT !.done = TRUE,
                        !.content = formatAnalysisComment(fn.analysis, fn.videoUrl)]
    /\ UNCHANGED <<videos, analyses, redditPosts, forumCalls, catalog, inv, lastDiscover>>

SpecFormat == InitFormat /\ [][ApplyFormat]_vars

\* a number written without sign and without needless leading zero
IsNumeral(digits) ==
    /\ Len(digits) >= 1
    /\ \A k \in DOMAIN digits : IsDigit(digits[k])
    /\ Len(digits) > 1 => digits[1] # "0"

\* the label reads minutes, a colon, then two digits of seconds
ReadsAs(label, mins, secs) ==
    LET colon == Len(label) - 2
    IN  /\ colon >= 2
        /\ label[colon] = ":"
        /\ IsNumeral(SubSeq(label, 1, colon - 1))
        /\ ParseInt(label, 1, colon) = mins
        /\ IsDigit(label[colon + 1])
        /\ IsDigit(label[colon + 2])
        /\ ParseInt(label, colon + 1, Len(label) + 1) = secs

\* C22: the body has one bullet per analysis timestamp, in the analysis
\* order, between the TL;DR and the summary; the label of the bullet for s
\* seconds is floor(s / 60) unpadded, a colon, and s mod 60 on two digits
\* (65 gives 1:05, 5 gives 0:05, 3665 gives 61:05), and its link is the
\* canonical url, "&t=", s and "s"
C22_Bullets ==
    (fn.op = "formatAnalysisComment" /\ fn.done) =>
        LET seconds == fn.analysis.timestampSeconds
            n == Len(seconds)
        IN  /\ Len(fn.content) = n + 4
            /\ fn.content[1] = [kind |-> "tldr", text |-> fn.analysis.tldr]
            /\ fn.content[2].kind = "heading"
            /\ fn.content[n + 3] = [kind |-> "summary", text |-> fn.analysis.summary]
            /\ fn.content[n + 4].kind = "footer"
            /\ \A i \in 1..n :
                  LET b == fn.content[i + 2]
                  IN  /\ b.kind = "bullet"
                      /\ b.description = fn.analysis.timestampDescriptions[i]
                      /\ ReadsAs(b.label, seconds[i] \div 60, seconds[i] % 60)
                      /\ seconds[i] = 65 => b.label = <<"1", ":", "0", "5">>
                      /\ seconds[i] = 5 => b.label = <<"0", ":", "0", "5">>
                      /\ seconds[i] = 3665 => b.label = <<"6", "1", ":", "0", "5">>
                      /\ Len(b.link) = 4
                      /\ b.link[1] = fn.videoUrl
                      /\ b.link[2] = "&t="
                      /\ IsNumeral(b.link[3])
                      /\ ParseInt(b.link[3], 1, Len(b.link[3]) + 1) = seconds[i]
                      /\ b.link[4] = "s"

\* C22 witness: the body of an analysis with the timestamps 5, 65 and 3665
\* was rendered
C22_Witness ==
    /\ fn.op = "formatAnalysisComment"
    /\ fn.done
    /\ fn.analysis.timestampSeconds = <<5, 65, 3665>>
    /\ Len(fn.content) = 7
    /\ fn.content[5].label = <<"6", "1", ":", "0", "5">>

-----------------------------------------------------------------------------
(* The Forum Client's bearer token.  fn is one client object: the          *)
(* RedditClient of reddit-client.ts ("class", which the bot holds) or the  *)
(* object createRedditClient of the process route returns ("route").       *)
(* Times are in seconds (the code computes in milliseconds, 1000 to the    *)
(* second).  acquiredAt and expiresIn remember the token response last     *)
(* received, last the latest request.                                      *)

MaxNow == 1200
MaxRequests == 4
tokenBuffer == 300

Advances == {100, 200}
ExpiresIn == {200, 300, 400, 600}
ClientKinds == {"class", "route"}

NoRequest == [at |-> 0, outcome |-> "none", token |-> 0, fetched |-> FALSE,
              issuedAt |-> 0, lifetime |-> 0,
              knownAt |-> 0, knownLifetime |-> 0, known |-> FALSE,
              tokenBefore |-> 0, expiryBefore |-> 0]

InitToken ==
    /\ videos = <<>>
    /\ analyses = <<>>
    /\ redditPosts = <<>>
    /\ forumCalls = EmptyBag
    /\ catalog = [i \in DOMAIN regions |-> [status |-> "nonok", items |-> <<>>]]
    /\ inv = [s \in Slots |-> IdleInv]
    /\ lastDiscover = "none"
    /\ \E kind \in ClientKinds :
          fn = [op |-> "client", kind |-> kind, now |-> 0,
                accessToken |-> 0, tokenExpiry |-> 0,
                tokens |-> 0, acquiredAt |-> 0, expiresIn |-> 0,
                requests |-> 0, last |-> NoRequest]

\* the guard of getAccessToken: a token is held and has not reached tokenExpiry
tokenValid(client) ==
    /\ client.kind = "class"
    /\ client.accessToken # 0
    /\ client.now < client.tokenExpiry

\* Date.now() + ((tokenData.expires_in - 300) * 1000)
tokenExpiryOf(now, expires_in) == now + (expires_in - tokenBuffer)

\* what the request under way knows of the token last received
Before(client) ==
    [knownAt |-> client.acquiredAt, knownLifetime |-> client.expiresIn,
     known |-> client.tokens > 0,
     tokenBefore |-> client.accessToken, expiryBefore |-> client.tokenExpiry]

\* the failed request (what makeRequest was called for was not sent)
FailedRequest(client) ==
    [at |-> client.now, outcome |-> "Failed to get access token",
     token |-> 0, fetched |-> TRUE, issuedAt |-> 0, lifetime |-> 0]
    @@ Before(client)

\* the cache emptied by a failed token request (a mutation of the code)
tokenRequestFailedClearing(client) ==
    [client EXCEPT !.requests = @ + 1, !.accessToken = 0, !.tokenExpiry = 0,
                   !.last = FailedRequest(client)]

\* if (!response.ok) throw new Error(`Failed to get access token: ...`):
\* thrown before accessToken and tokenExpiry are assigned, and out of
\* makeRequest before its fetch
tokenRequestFailed(client) ==
    [client EXCEPT !.requests = @ + 1, !.last = FailedRequest(client)]

\* makeRequest (class) or submitPost / submitComment (route): the token is
\* taken from the cache or requested, then the forum is called with it
makeRequest(tokenOk, expires_in) ==
    /\ fn.op = "client"
    /\ fn.requests < MaxRequests
    /\ IF tokenValid(fn)
       THEN fn' = [fn EXCEPT
                !.requests = @ + 1,
                !.last = [at |-> fn.now, outcome |-> "sent",
                          token |-> fn.accessToken, fetched |-> FALSE,
                          issuedAt |-> fn.acquiredAt, lifetime |-> fn.expiresIn]
                         @@ Before(fn)]
       ELSE IF ~tokenOk
       THEN fn' = tokenRequestFailed(fn)
       ELSE fn' = [fn EXCEPT
                !.requests = @ + 1,
                !.tokens = @ + 1,
                !.acquiredAt = fn.now,
                !.expiresIn = expires_in,
                !.accessToken = IF fn.kind = "class" THEN fn.tokens + 1 ELSE @,
                !.tokenExpiry = IF fn.kind = "class"
                                THEN tokenExpiryOf(fn.now, expires_in) ELSE @,
                !.last = [at |-> fn.now, outcome |-> "sent",
                          token |-> fn.tokens + 1, fetched |-> TRUE,
                          issuedAt |-> fn.now, lifetime |-> expires_in]
                         @@ Before(fn)]
    /\ UNCHANGED <<videos, analyses, redditPosts, forumCalls, catalog, inv, lastDiscover>>

\* time passes between two requests
Advance(d) ==
    /\ fn.op = "client"
    /\ fn.now + d <= MaxNow
    /\ fn' = [fn EXCEPT !.now = @ + d]
    /\ UNCHANGED <<videos, analyses, redditPosts, forumCalls, catalog, inv, lastDiscover>>

NextToken ==
    \/ \E tokenOk \in BOOLEAN, expires_in \in ExpiresIn : makeRequest(tokenOk, expires_in)
    \/ \E d \in Advances : Advance(d)

SpecToken == InitToken /\ [][NextToken]_vars

\* C23 as stated: a request made before the token last received reached
\* (acquisition + expires_in - 300 s) sends no token request, one made at or
\* after it requests a token first, and no request carries a token that is
\* in the last 300 s of its lifetime
C23_TokenMarginAsStated ==
    (fn.op = "client" /\ fn.last.outcome # "none") =>
        LET r == fn.last
        IN  /\ (r.known /\ r.at < r.knownAt + r.knownLifetime - tokenBuffer)
                  => ~r.fetched
            /\ (r.known /\ r.at >= r.knownAt + r.knownLifetime - tokenBuffer)
                  => r.fetched
            /\ r.outcome = "sent" => r.at < r.issuedAt + r.lifetime - tokenBuffer

\* the latest call on the client failed in its token request
TokenRequestFailed ==
    /\ fn.op = "client"
    /\ fn.kind = "class"
    /\ fn.last.outcome = "Failed to get access token"

\* C36: after a failed token request of a RedditClient the cached token and
\* its expiry are what they were before the call, the forum request was not
\* sent and the call ended in the error; the next call on the client sends a
\* token request again
C36_TokenFailure ==
    /\ [](TokenRequestFailed =>
            /\ fn.accessToken = fn.last.tokenBefore
            /\ fn.tokenExpiry = fn.last.expiryBefore
            /\ fn.last.token = 0
            /\ fn.last.fetched
            /\ ~tokenValid(fn))
    /\ [][(TokenRequestFailed /\ fn'.requests = fn.requests + 1) =>
            /\ fn'.last.fetched
            /\ fn'.last.tokenBefore = fn.accessToken]_vars

\* C36 witness: the third call on a client found its token expired, its
\* token request failed, and the expired token is still held
C36_Witness ==
    /\ TokenRequestFailed
    /\ fn.accessToken # 0
    /\ fn.last.tokenBefore = fn.accessToken
    /\ fn.now >= fn.tokenExpiry
    /\ fn.tokenExpiry > 0
    /\ fn.requests = 3

-----------------------------------------------------------------------------
(* Overlapping ProcessAndPost invocations: the processing cron fires while *)
(* an earlier invocation is still running, each invocation with its own    *)
(* locals and taking one video (processAndPost(1), take: 1), against a     *)
(* repository that holds one discovered video                              *)

OverlapSlots == {1, 2}

OverlapRepository ==
    LET found == TagRegion(<<Item("a", "title a", PT10M)>>, regions[1])
    IN  [i \in DOMAIN found |-> saveVideoToDatabase(found[i])]

InitOverlap ==
    /\ videos = OverlapRepository
    /\ analyses = <<>>
    /\ redditPosts = <<>>
    /\ forumCalls = EmptyBag
    /\ catalog = [i \in DOMAIN regions |-> [status |-> "nonok", items |-> <<>>]]
    /\ inv = [s \in OverlapSlots |-> IdleInv]
    /\ fn = NoCall
    /\ lastDiscover = "none"

\* a request reaching the handler whatever the other invocations are doing
StartProcessOverlapping(s, handler, maxVideos) ==
    /\ Idle(s)
    /\ inv' = [inv EXCEPT ![s] = [IdleInv EXCEPT !.op = "process",
                                                 !.handler = handler,
                                                 !.maxVideos = maxVideos,
                                                 !.pc = "p_select"]]
    /\ UNCHANGED <<videos, analyses, redditPosts, forumCalls, catalog, lastDiscover, fn>>

NextOverlap ==
    \/ \E s \in OverlapSlots, h \in Handlers : StartProcessOverlapping(s, h, 1)
    \/ \E s \in OverlapSlots : SelectVideos(s)
    \/ \E s \in OverlapSlots : Analyze(s)
    \/ \E s \in OverlapSlots : SaveAnalysis(s)
    \/ \E s \in OverlapSlots : SubmitPost(s)
    \/ \E s \in OverlapSlots : SubmitComment(s)
    \/ \E s \in OverlapSlots : SaveRedditPost(s)
    \/ \E s \in OverlapSlots : SaveFailedPost(s)
    \/ \E s \in OverlapSlots : Finish(s)

SpecOverlap == InitOverlap /\ [][NextOverlap]_vars

\* C34 as stated: with invocations overlapping, no video has two
\* AnalysisRecords and no video is (successfully) posted twice
C34_OverlapAsStated ==
    \A v \in DOMAIN videos :
        /\ Cardinality(AnalysesOf(v)) <= 1
        /\ SubmitCalls(videos[v].youtubeId, TRUE) <= 1

-----------------------------------------------------------------------------
(* ProcessAndPost on its own, every awaited call settling: invocations one *)
(* after the other against a repository that holds two discovered videos   *)

ProcessRepository ==
    LET found == TagRegion(<<Item("a", "title a", PT10M),
                             Item("b", "title b", PT2M)>>, regions[1])
    IN  [i \in DOMAIN found |-> saveVideoToDatabase(found[i])]

InitProcess ==
    /\ videos = ProcessRepository
    /\ analyses = <<>>
    /\ redditPosts = <<>>
    /\ forumCalls = EmptyBag
    /\ catalog = [i \in DOMAIN regions |-> [status |-> "nonok", items |-> <<>>]]
    /\ inv = [s \in Slots |-> IdleInv]
    /\ fn = NoCall
    /\ lastDiscover = "none"

\* a step of a running invocation: an awaited call returns or fails
ProcessStep ==
    \E s \in Slots :
        \/ SelectVideos(s)
        \/ Analyze(s)
        \/ SaveAnalysis(s)
        \/ SubmitPost(s)
        \/ SubmitComment(s)
        \/ SaveRedditPost(s)
        \/ SaveFailedPost(s)

NextProcess ==
    \/ \E s \in Slots, h \in Handlers, n \in 1..MaxBatch : StartProcess(s, h, n)
    \/ ProcessStep
    \/ \E s \in Slots : Finish(s)

SpecProcess == InitProcess /\ [][NextProcess]_vars /\ WF_vars(ProcessStep)

-----------------------------------------------------------------------------
(* The two process handlers side by side: the iteration of one video as    *)
(* RedditBot.processAndPost(1) and as the standalone process handler run   *)
(* it, on the same video and the same outcomes of the awaited calls        *)

NoRecord == [status |-> "none"]

\* an iteration that created no record and counted nothing
NoResult ==
    [analysis |-> NoRecord, publish |-> NoRecord, analyzed |-> 0, posted |-> 0]

\* what the calls of one iteration end in
ChainOutcomes ==
    [response : GenResponses, analysisSaved : BOOLEAN,
     submit : SubmitOutcomes("a"), commentOk : BOOLEAN,
     recordSaved : BOOLEAN, failedSaved : BOOLEAN]

\* one iteration of for (const video of videosToProcess), the video being row
\* 1 and its AnalysisRecord row 1: the records created and the two counters
processVideo(handler, video, o) ==
    LET r == IF handler = "bot"
             THEN analyzeVideo(video, o.response)
             ELSE analyzeVideoRoute(video, o.response)
        withAnalysis == [NoResult EXCEPT
                     !.analysis = [status |-> "created", videoId |-> 1] @@ r.analysis,
                     !.analyzed = 1]
        failed(errorMsg) ==
            IF o.failedSaved
            THEN [withAnalysis EXCEPT !.publish = failedRecord(1, 1, errorMsg)]
            ELSE withAnalysis
        postId == extractPostId(o.submit)
        commentPosted == postId # "" /\ o.commentOk
    IN  IF r.threw \/ ~o.analysisSaved THEN NoResult
        ELSE IF ~o.submit.ok
             THEN failed(<<"Failed to post to Reddit: ", ForumError>>)
        ELSE IF ~o.recordSaved
             THEN failed(<<"Failed to post to Reddit: ", DbError>>)
        ELSE [withAnalysis EXCEPT
                 !.publish = postedRecord(1, 1, postId, commentPosted),
                 !.posted = 1]

InitEquiv ==
    /\ videos = <<>>
    /\ analyses = <<>>
    /\ redditPosts = <<>>
    /\ forumCalls = EmptyBag
    /\ catalog = [i \in DOMAIN regions |-> [status |-> "nonok", items |-> <<>>]]
    /\ inv = [s \in Slots |-> IdleInv]
    /\ lastDiscover = "none"
    /\ \E o \in ChainOutcomes :
          fn = [op |-> "processVideo", video |-> ProcessRepository[1],
                outcomes |-> o, done |-> FALSE,
                bot |-> NoResult, route |-> NoResult]

ApplyBoth ==
    /\ fn.op = "processVideo"
    /\ ~fn.done
    /\ fn' = [fn EXCEPT !.done = TRUE,
                        !.bot = processVideo("bot", fn.video, fn.outcomes),
                        !.route = processVideo("route", fn.video, fn.outcomes)]
    /\ UNCHANGED <<videos, analyses, redditPosts, forumCalls, catalog, inv, lastDiscover>>

SpecEquiv == InitEquiv /\ [][ApplyBoth]_vars

\* C38 as stated: on the same video and the same outcomes of the generative,
\* forum and repository calls, the standalone process handler and
\* RedditBot.processAndPost(1) create the same AnalysisRecord and the same
\* PublishRecord and count the same analyzed and posted
C38_EquivalentAsStated ==
    (fn.op = "processVideo" /\ fn.done) => fn.bot = fn.route

=============================================================================
